---- MODULE Spec2Model ----
(***************************************************************************)
(* Model of riliasov/admin_validator: the findings' identity, the report   *)
(* reconciliation (ReportManager) and the sheet validators.                *)
(*                                                                         *)
(* Text is modelled by TLA+ strings, handled character by character with   *)
(* Len, SubSeq and \o.  The Cyrillic literals of the source are written    *)
(* transliterated (Prodazhi, Trenirovki, Obrashcheniya, Posmotret, ...),   *)
(* because the module's strings are ASCII.                                 *)
(***************************************************************************)
EXTENDS Integers, Sequences, FiniteSets, TLC

VARIABLES
    report_rows,     \* the grid held by the report sheet (header + rows)
    today,           \* the current day, a day number (see strftime)
    runs,            \* how many times the report step of main() has run
    edits,           \* how many operator edits the report sheet has received
    report_data,     \* the grid the last run read from the report sheet
    existing_items,  \* parse_existing_report's result in the last run
    new_errors,      \* the findings handed to reconcile in the last run
    combined,        \* reconcile's active_items before the sort (last run)
    active_items,    \* reconcile's result in the last run
    run_day,         \* the day of the last run
    fa, fb,          \* two findings whose identity is compared
    uid_a, uid_b,    \* their uids
    vstep,           \* how many identity comparisons were made
    val_kind,        \* the validator that ran last: "sales", "trainings", "leads"
    val_data,        \* the grid handed to it (header row + data rows)
    val_now,         \* datetime.now() of that run
    val_errors,      \* the findings validate() returned
    val_raised,      \* whether validate() raised instead of returning
    val_skipped,     \* the data rows validate_row left at its date filter
    val_step,        \* how many validations were run
    val_imported,    \* the findings of the validator of module validator on the same grid
    val_imported_raised,  \* whether that validator raised
    api_func,        \* the method of SheetsClient behind retry_api_call's wrapper
    api_rows,        \* the grid handed to write_report
    dest,            \* the grid held by the sheet the call reads or writes
    api_pc,          \* where the wrapper stands: idle, try, cleared, returned, raised
    attempt,         \* wrapper: the loop variable
    delay,           \* wrapper: the base delay of the next sleep, in hundredths of a second
    calls,           \* how many times the wrapper has called func
    slept,           \* the sleeps of the wrapper, as <<delay, sleep_time>>
    last_exception,  \* wrapper: the last failure caught
    api_result,      \* what the wrapper returned
    api_raised,      \* what the wrapper raised to its caller
    main_pc,         \* main(): the step it stands before, "done" or "exit" at its end
    all_errors,      \* main(): the findings collected so far
    failed_sheets,   \* the sheets whose step of this run ended in its except branch
    mains            \* how many times main() was started

report_vars == <<report_rows, today, runs, edits, report_data, existing_items, new_errors,
                 combined, active_items, run_day>>
uid_vars == <<fa, fb, uid_a, uid_b, vstep>>
val_vars == <<val_kind, val_data, val_now, val_errors, val_raised, val_skipped, val_step,
              val_imported, val_imported_raised>>
api_vars == <<api_func, api_rows, dest, api_pc, attempt, delay, calls, slept, last_exception,
              api_result, api_raised>>
run_vars == <<main_pc, all_errors, failed_sheets, mains>>
vars == <<report_vars, uid_vars, val_vars, api_vars, run_vars>>

(***************************************************************************)
(* Bounds of the model.                                                    *)
(***************************************************************************)
MaxRuns == 2
MaxEdits == 2
MaxDay == 1
MaxCompare == 1
MaxValidate == 1
MaxMains == 2

(***************************************************************************)
(* Text helpers: Python's str methods on the model's strings.              *)
(***************************************************************************)
Ascii == " !#$%&'()*+,-./0123456789:;<=>?@ABCDEFGHIJKLMNOPQRSTUVWXYZ[]^_abcdefghijklmnopqrstuvwxyz{|}~"

CharAt(s, i) == SubSeq(s, i, i)

\* The rank of every character in code point order
OrdTable == [c \in {CharAt(Ascii, i) : i \in 1..Len(Ascii)} |->
                CHOOSE i \in 1..Len(Ascii) : CharAt(Ascii, i) = c]

\* ord(c), up to the offset of the first character
Ord(c) == OrdTable[c]

\* Python's s < t on str: lexicographic by code point.
RECURSIVE StrLess(_, _)
StrLess(s, t) ==
    IF Len(t) = 0 THEN FALSE
    ELSE IF Len(s) = 0 THEN TRUE
    ELSE IF CharAt(s, 1) = CharAt(t, 1)
         THEN StrLess(SubSeq(s, 2, Len(s)), SubSeq(t, 2, Len(t)))
         ELSE Ord(CharAt(s, 1)) < Ord(CharAt(t, 1))

\* s.startswith(p)
StartsWith(s, p) == Len(s) >= Len(p) /\ SubSeq(s, 1, Len(p)) = p

\* s.split(sep) for a one-character separator: the sequence of the parts.
RECURSIVE SplitFrom(_, _, _, _)
SplitFrom(s, sep, i, cur) ==
    IF i > Len(s) THEN <<cur>>
    ELSE IF CharAt(s, i) = sep
         THEN <<cur>> \o SplitFrom(s, sep, i + 1, "")
         ELSE SplitFrom(s, sep, i + 1, cur \o CharAt(s, i))

Split(s, sep) == SplitFrom(s, sep, 1, "")

IsDigit(c) == c \in {"0", "1", "2", "3", "4", "5", "6", "7", "8", "9"}

DigitVal(c) == Ord(c) - Ord("0")

\* Whether int(s) succeeds, for the model's texts (digits, letters,
\* punctuation; no sign, blank or underscore inside a number).
IsIntLiteral(s) == Len(s) > 0 /\ \A i \in 1..Len(s) : IsDigit(CharAt(s, i))

RECURSIVE IntOfPrefix(_, _)
IntOfPrefix(s, n) ==
    IF n = 0 THEN 0 ELSE 10 * IntOfPrefix(s, n - 1) + DigitVal(CharAt(s, n))

\* int(s) for a string of digits
IntOf(s) == IntOfPrefix(s, Len(s))

Pad2(n) == IF n < 10 THEN "0" \o ToString(n) ELSE ToString(n)

\* datetime.now().strftime("%d.%m.%Y") on day number d: day 0 is 31.12.2024,
\* day d >= 1 is the d-th of January 2025.
strftime(d) == IF d = 0 THEN "31.12.2024" ELSE Pad2(d) \o ".01.2025"

\* hashlib.md5(raw.encode('utf-8')).hexdigest(), taken as collision-free:
\* an injective tagging of the hashed text.
md5(raw) == "md5:" \o raw

(***************************************************************************)
(* Cell values of a grid: text, boolean or number.  A number is held in     *)
(* hundredths (Scale): N(4565850) is 45658.5.                              *)
(***************************************************************************)
Scale == 100

None == [t |-> "none"]

S(x) == [t |-> "str", v |-> x]
B(b) == [t |-> "bool", v |-> b]
N(v) == [t |-> "num", v |-> v]

\* Python truthiness of a cell value
Truthy(c) ==
    IF c.t = "bool" THEN c.v
    ELSE IF c.t = "num" THEN c.v # 0
    ELSE c.v # ""

\* str(x) of a number: whole values as the API's integers, others with
\* their decimals
FmtNum(v) ==
    LET a == IF v < 0 THEN 0 - v ELSE v
        frac == a % Scale
    IN  (IF v < 0 THEN "-" ELSE "") \o ToString(a \div Scale) \o
        (IF frac = 0 THEN ""
         ELSE IF frac % 10 = 0 THEN "." \o ToString(frac \div 10)
         ELSE "." \o Pad2(frac))

\* f"{c}" / str(c)
Fmt(c) ==
    IF c.t = "bool" THEN (IF c.v THEN "True" ELSE "False")
    ELSE IF c.t = "num" THEN FmtNum(c.v)
    ELSE c.v

(***************************************************************************)
(* models.py: ValidationError                                              *)
(***************************************************************************)
ValidationError(row_number, column, error_type, description, cell_link, sheet_name, admin) ==
    [row_number |-> row_number, column |-> column, error_type |-> error_type,
     description |-> description, cell_link |-> cell_link,
     sheet_name |-> sheet_name, admin |-> admin]

\* The text that is hashed
raw_id(e) ==
    e.sheet_name \o "_" \o ToString(e.row_number) \o "_" \o e.column \o "_" \o e.error_type

uid(e) == md5(raw_id(e))

(***************************************************************************)
(* report_manager.py: ReportItem                                           *)
(***************************************************************************)
ReportItem(uid_, is_manual, sheet, error_column, description, link, created_date, admin) ==
    [uid |-> uid_, is_manual |-> is_manual, sheet |-> sheet,
     error_column |-> error_column, description |-> description,
     link |-> link, created_date |-> created_date, admin |-> admin]

\* The formula a link starting with http is wrapped into (the label is
\* "Posmotret"; the formula's double quotes are written as single quotes).
Hyperlink(link) == "=HYPERLINK('" \o link \o "'; 'Posmotret')"

link_val(item) ==
    IF item.link # "" /\ StartsWith(item.link, "http")
    THEN Hyperlink(item.link)
    ELSE item.link

to_row(item) ==
    <<S(item.uid), B(item.is_manual), S(item.created_date), S(item.sheet),
      S(item.error_column), S(item.admin), S(item.description), S(link_val(item))>>

HEADERS ==
    <<S("ID"), S("Manual task"), S("Data"), S("List"), S("Tip"), S("Admin"),
      S("Opisanie"), S("Ssylka")>>

(***************************************************************************)
(* report_manager.py: ReportManager.parse_existing_report                  *)
(* A dict is a sequence of items with distinct uids, in insertion order    *)
(* (the key of an item is its uid).                                        *)
(***************************************************************************)
Keys(items) == {items[i].uid : i \in 1..Len(items)}

\* items[uid] = item: a new key is appended, an old key keeps its place and
\* takes the new value.
DictPut(items, item) ==
    IF item.uid \in Keys(items)
    THEN [i \in 1..Len(items) |-> IF items[i].uid = item.uid THEN item ELSE items[i]]
    ELSE Append(items, item)

DictGet(items, u) == items[CHOOSE i \in 1..Len(items) : items[i].uid = u]

\* row[i] if len(row) > i else "" (i is the 0-based index of the source)
CellOr(row, i) == IF Len(row) > i THEN row[i + 1] ELSE S("")

\* is_manual_cell in ["TRUE", "True", "true", True, "Vruchnuyu"]
is_manual_cell(c) ==
    \/ c.t = "str" /\ c.v \in {"TRUE", "True", "true", "Vruchnuyu"}
    \/ c.t = "bool" /\ c.v

\* The id given to a manual row without one: desc is read from index 5 and
\* date from index 2.
synthetic_uid(row) ==
    LET desc == Fmt(CellOr(row, 5))
        date == Fmt(CellOr(row, 2))
    IN  md5("manual_" \o date \o "_" \o desc)

\* Whether the loop body reaches the ReportItem(...) construction for a row
row_is_parsed(row) ==
    /\ Len(row) >= 5
    /\ (Truthy(row[1]) \/ is_manual_cell(CellOr(row, 1)))

\* The item built from a row that is parsed (the id cell is text)
row_item(row) ==
    ReportItem(IF Truthy(row[1]) THEN Fmt(row[1]) ELSE synthetic_uid(row),
               is_manual_cell(CellOr(row, 1)),
               Fmt(CellOr(row, 3)), Fmt(CellOr(row, 4)), Fmt(CellOr(row, 6)),
               Fmt(CellOr(row, 7)), Fmt(CellOr(row, 2)), Fmt(CellOr(row, 5)))

\* 1-based index of the first data row: the header is skipped if present.
start_idx(rows) ==
    IF Len(rows) > 0 /\ Len(rows[1]) > 0 /\ rows[1][1] = S("ID") THEN 2 ELSE 1

RECURSIVE parse_from(_, _, _)
parse_from(rows, i, items) ==
    IF i > Len(rows) THEN items
    ELSE IF row_is_parsed(rows[i])
         THEN parse_from(rows, i + 1, DictPut(items, row_item(rows[i])))
         ELSE parse_from(rows, i + 1, items)

parse_existing_report(rows) ==
    IF Len(rows) = 0 THEN <<>> ELSE parse_from(rows, start_idx(rows), <<>>)

(***************************************************************************)
(* report_manager.py: ReportManager.reconcile                              *)
(***************************************************************************)
\* Mutant of errors_map_from: a uid already in the map keeps its first finding.
RECURSIVE errors_map_from_first(_, _, _)
errors_map_from_first(errs, i, m) ==
    IF i > Len(errs) THEN m
    ELSE LET e == errs[i]
             hit == {j \in 1..Len(m) : uid(m[j]) = uid(e)}
         IN  errors_map_from_first(errs, i + 1, IF hit = {} THEN Append(m, e) ELSE m)

\* new_errors_map = {e.uid: e for e in new_errors}: one finding per uid, at
\* the place of the first finding with that uid, with the value of the last.
RECURSIVE errors_map_from(_, _, _)
errors_map_from(errs, i, m) ==
    IF i > Len(errs) THEN m
    ELSE LET e == errs[i]
             hit == {j \in 1..Len(m) : uid(m[j]) = uid(e)}
         IN  errors_map_from(errs, i + 1,
                 IF hit = {} THEN Append(m, e)
                 ELSE [j \in 1..Len(m) |-> IF j \in hit THEN e ELSE m[j]])

new_errors_map(errs) == errors_map_from(errs, 1, <<>>)

MapKeys(m) == {uid(m[j]) : j \in 1..Len(m)}

MapGet(m, u) == m[CHOOSE j \in 1..Len(m) : uid(m[j]) = u]

\* An existing item whose uid is found in the map: refreshed from the finding
refresh(item, new_err) ==
    [item EXCEPT !.description = new_err.description,
                 !.link = new_err.cell_link,
                 !.error_column = new_err.column,
                 !.sheet = new_err.sheet_name,
                 !.admin = new_err.admin]

\* Mutant of is_kept: the elif branch for manual items is missing.
is_kept_without_manual(item, m) == item.uid \in MapKeys(m)

\* Step 1: whether an existing item is appended to active_items
is_kept(item, m) == item.uid \in MapKeys(m) \/ item.is_manual

kept_item(item, m) ==
    IF item.uid \in MapKeys(m) THEN refresh(item, MapGet(m, item.uid)) ELSE item

RECURSIVE kept_from(_, _, _)
kept_from(items, i, m) ==
    IF i > Len(items) THEN <<>>
    ELSE IF is_kept(items[i], m)
         THEN <<kept_item(items[i], m)>> \o kept_from(items, i + 1, m)
         ELSE kept_from(items, i + 1, m)

\* Step 2: the findings left in the map after step 1, in the map's order
RECURSIVE left_from(_, _, _)
left_from(m, j, items) ==
    IF j > Len(m) THEN <<>>
    ELSE IF uid(m[j]) \in Keys(items)
         THEN left_from(m, j + 1, items)
         ELSE <<m[j]>> \o left_from(m, j + 1, items)

\* Mutant of new_item: the creation date is not filled in.
new_item_undated(error, today_str) ==
    ReportItem(uid(error), FALSE, error.sheet_name, error.column,
               error.description, error.cell_link, "", error.admin)

new_item(error, today_str) ==
    ReportItem(uid(error), FALSE, error.sheet_name, error.column,
               error.description, error.cell_link, today_str, error.admin)

\* active_items before the sort
unsorted_items(items, errs, today_str) ==
    LET m == new_errors_map(errs)
        left == left_from(m, 1, items)
    IN  kept_from(items, 1, m) \o [j \in 1..Len(left) |-> new_item(left[j], today_str)]

\* Step 3: the sort
SHEET_ORDER(sheet) ==
    CASE sheet = "Prodazhi" -> 0
      [] sheet = "Trenirovki" -> 1
      [] sheet = "Obrashcheniya" -> 2
      [] OTHER -> 99

date_val(d_str) ==
    LET parts == Split(d_str, ".")
    IN  IF Len(parts) = 3
        THEN LET digits == parts[3] \o parts[2] \o parts[1]
             IN  IF IsIntLiteral(digits) THEN IntOf(digits) ELSE 0
        ELSE 0

sort_key(item) == <<date_val(item.created_date), SHEET_ORDER(item.sheet), item.error_column>>

\* Python's tuple comparison of two keys
KeyLess(a, b) ==
    \/ a[1] < b[1]
    \/ a[1] = b[1] /\ a[2] < b[2]
    \/ a[1] = b[1] /\ a[2] = b[2] /\ StrLess(a[3], b[3])

\* Mutant of insert_sorted: an item goes before the items of equal key too
\* (the sort is not stable).
insert_sorted_unstable(sorted, x) ==
    LET notless == {k \in 1..Len(sorted) : ~KeyLess(sorted[k].key, x.key)}
        pos == IF notless = {} THEN Len(sorted) + 1
               ELSE CHOOSE k \in notless : \A l \in notless : k <= l
    IN  SubSeq(sorted, 1, pos - 1) \o <<x>> \o SubSeq(sorted, pos, Len(sorted))

\* list.sort(key=sort_key): the key of every item is computed once, then the
\* items are sorted by it, stably: an item goes before the first item of the
\* sorted prefix whose key is greater than its own.
insert_sorted(sorted, x) ==
    LET greater == {k \in 1..Len(sorted) : KeyLess(x.key, sorted[k].key)}
        pos == IF greater = {} THEN Len(sorted) + 1
               ELSE CHOOSE k \in greater : \A l \in greater : k <= l
    IN  SubSeq(sorted, 1, pos - 1) \o <<x>> \o SubSeq(sorted, pos, Len(sorted))

RECURSIVE sort_prefix(_, _)
sort_prefix(keyed, n) ==
    IF n = 0 THEN <<>> ELSE insert_sorted(sort_prefix(keyed, n - 1), keyed[n])

sorted_by_key(items) ==
    LET keyed == [i \in 1..Len(items) |-> [key |-> sort_key(items[i]), item |-> items[i]]]
        sorted == sort_prefix(keyed, Len(keyed))
    IN  [i \in 1..Len(sorted) |-> sorted[i].item]

reconcile(items, errs, today_str) == sorted_by_key(unsorted_items(items, errs, today_str))

(***************************************************************************)
(* The report step of runner.main() and the report sheet's environment.   *)
(***************************************************************************)
\* The findings a run can be handed (the validators' output): F1 and F1b have
\* one uid and different text, F4 is another row of the same sheet and column,
\* F2 is a finding of another sheet.
F1 == ValidationError(3, "Klient", "empty", "d1", "http://s/B3", "Prodazhi", "Anna")
F1b == ValidationError(3, "Klient", "empty", "d2", "http://s/C3", "Prodazhi", "Boris")
F4 == ValidationError(4, "Klient", "empty", "d1", "http://s/B4", "Prodazhi", "Anna")
F2 == ValidationError(2, "Data", "empty", "d3", "http://s/A2", "Trenirovki", "Anna")

FindingLists ==
    { <<>>, <<F1>>, <<F1b, F4>>, <<F4, F1>>, <<F1, F1b>>, <<F2, F1>>, <<F1, F2>> }

\* The rows an operator types into the report sheet (the sheet hands them
\* back as text, without the trailing empty cells)
OperatorRows ==
    { <<S(""), S("TRUE"), S("31.12.2024"), S("Prodazhi"), S("Klient"), S("Anna"), S("call"), S("http://x")>>,
      <<S(""), S("TRUE"), S("31.12.2024"), S("Prodazhi"), S("Klient"), S("Boris"), S("call"), S("http://x")>>,
      <<S(""), S("TRUE"), S("31.12.2024"), S("Prodazhi"), S("Klient"), S("Anna"), S("visit"), S("http://x")>>,
      <<S(""), S("Vruchnuyu"), S("32.13.2024"), S("Obrashcheniya"), S("Data"), S("Anna"), S("note")>>,
      <<S(""), S("True"), S(""), S("Sklad"), S("Data")>>,
      <<S(""), S("FALSE"), S("01.01.2025"), S("Sklad"), S("Data"), S("Anna"), S("call")>>,
      <<S(""), S("true"), S("soon"), S("Sklad")>> }

ReportInit ==
    /\ report_rows = <<>>
    /\ today = 0
    /\ runs = 0
    /\ edits = 0
    /\ report_data = <<>>
    /\ existing_items = <<>>
    /\ new_errors = <<>>
    /\ combined = <<>>
    /\ active_items = <<>>
    /\ run_day = 0

UidIdle ==
    /\ fa = ValidationError(0, "", "", "", "", "", "")
    /\ fb = ValidationError(0, "", "", "", "", "", "")
    /\ uid_a = ""
    /\ uid_b = ""
    /\ vstep = 0

ValIdle ==
    /\ val_kind = ""
    /\ val_data = <<>>
    /\ val_now = [t |-> "datetime", days |-> 0, frac |-> 0]
    /\ val_errors = <<>>
    /\ val_raised = FALSE
    /\ val_skipped = {}
    /\ val_step = 0
    /\ val_imported = <<>>
    /\ val_imported_raised = FALSE

\* runner.main(), step 5: read the report, parse, reconcile with the run's
\* findings, render and write back.
main_report(errs) ==
    /\ runs < MaxRuns
    /\ LET items == parse_existing_report(report_rows)
           unsorted == unsorted_items(items, errs, strftime(today))
           active_rows == reconcile(items, errs, strftime(today))
       IN  /\ report_data' = report_rows
           /\ existing_items' = items
           /\ new_errors' = errs
           /\ combined' = unsorted
           /\ active_items' = active_rows
           /\ report_rows' = <<HEADERS>> \o [i \in 1..Len(active_rows) |-> to_row(active_rows[i])]
    /\ run_day' = today
    /\ runs' = runs + 1
    /\ UNCHANGED <<today, edits, uid_vars, val_vars, api_vars, run_vars>>

\* An operator appends a task row to the report sheet.
OperatorAddRow(row) ==
    /\ edits < MaxEdits
    /\ report_rows' = Append(report_rows, row)
    /\ edits' = edits + 1
    /\ UNCHANGED <<today, runs, report_data, existing_items, new_errors, combined, active_items,
                   run_day, uid_vars, val_vars, api_vars, run_vars>>

\* An operator ticks the "Manual task" checkbox of a row.
OperatorSetManual(i) ==
    /\ edits < MaxEdits
    /\ i \in 2..Len(report_rows)
    /\ Len(report_rows[i]) >= 2
    /\ ~is_manual_cell(report_rows[i][2])
    /\ report_rows' = [report_rows EXCEPT ![i][2] = S("TRUE")]
    /\ edits' = edits + 1
    /\ UNCHANGED <<today, runs, report_data, existing_items, new_errors, combined, active_items,
                   run_day, uid_vars, val_vars, api_vars, run_vars>>

\* Midnight passes.
NextDay ==
    /\ today < MaxDay
    /\ today' = today + 1
    /\ UNCHANGED <<report_rows, runs, edits, report_data, existing_items, new_errors, combined,
                   active_items, run_day, uid_vars, val_vars, api_vars, run_vars>>

\* The report sheet as the last run left it: the header and one manual task
PreviousReport ==
    <<HEADERS,
      <<S("m1"), S("TRUE"), S("31.12.2024"), S("Prodazhi"), S("Klient"), S("Anna"), S("call"),
        S("")>>>>

\* No call of the client is under way
ApiIdle ==
    /\ api_func = ""
    /\ api_rows = <<>>
    /\ dest = PreviousReport
    /\ api_pc = "idle"
    /\ attempt = 0
    /\ delay = 0
    /\ calls = 0
    /\ slept = <<>>
    /\ last_exception = None
    /\ api_result = None
    /\ api_raised = None

\* main() has not been started
RunIdle ==
    /\ main_pc = "idle"
    /\ all_errors = <<>>
    /\ failed_sheets = {}
    /\ mains = 0

Init == ReportInit /\ UidIdle /\ ValIdle /\ ApiIdle /\ RunIdle

Next ==
    \/ \E errs \in FindingLists : main_report(errs)
    \/ \E row \in OperatorRows : OperatorAddRow(row)
    \/ \E i \in 1..Len(report_rows) : OperatorSetManual(i)
    \/ NextDay

Spec == Init /\ [][Next]_vars

(***************************************************************************)
(* Properties of the reconciliation.                                       *)
(***************************************************************************)
ErrorUids(errs) == {uid(errs[i]) : i \in 1..Len(errs)}

\* The grid main() writes for a list of items
Render(items) == <<HEADERS>> \o [i \in 1..Len(items) |-> to_row(items[i])]

\* The place of the item with uid u in a list of items with distinct uids
PosOf(items, u) == CHOOSE i \in 1..Len(items) : items[i].uid = u

\* The place of the first finding with uid u
FirstError(errs, u) ==
    CHOOSE i \in 1..Len(errs) : uid(errs[i]) = u /\ \A k \in 1..(i - 1) : uid(errs[k]) # u

\* C1: after reconcile(existing_items, new_errors), every existing manual
\* item is in the output (the very same item when no finding carries its
\* uid), and no output item has the uid of an existing non-manual item that
\* no finding carries.
C1_ManualSurvival ==
    runs > 0 =>
        \A i \in 1..Len(existing_items) :
            LET item == existing_items[i]
            IN  /\ item.is_manual =>
                    \E j \in 1..Len(active_items) :
                        /\ active_items[j].uid = item.uid
                        /\ active_items[j].is_manual
                        /\ item.uid \notin ErrorUids(new_errors) => active_items[j] = item
                /\ (~item.is_manual /\ item.uid \notin ErrorUids(new_errors)) =>
                    \A j \in 1..Len(active_items) : active_items[j].uid # item.uid

\* C1 witness: one reconcile kept a manual item that no finding carries, kept
\* a manual item that a finding carries, and dropped a non-manual item.
C1_Witness ==
    /\ runs > 0
    /\ \E i \in 1..Len(existing_items) :
          existing_items[i].is_manual /\ existing_items[i].uid \notin ErrorUids(new_errors)
    /\ \E i \in 1..Len(existing_items) :
          existing_items[i].is_manual /\ existing_items[i].uid \in ErrorUids(new_errors)
    /\ \E i \in 1..Len(existing_items) :
          ~existing_items[i].is_manual /\ existing_items[i].uid \notin ErrorUids(new_errors)

\* C2: in every run, the non-manual items of the output are those whose uid
\* is among the run's findings; an item whose uid was not in the previous
\* list is created non-manual with the run's date; an item whose uid was in
\* the previous list keeps uid, is_manual and created_date, also across the
\* rendering and re-reading of the previous run's output.
C2_Lifecycle ==
    [][runs' = runs + 1 =>
        /\ \A j \in 1..Len(active_items') :
              ~active_items'[j].is_manual => active_items'[j].uid \in ErrorUids(new_errors')
        /\ \A u \in ErrorUids(new_errors') : u \in Keys(active_items')
        /\ \A i \in 1..Len(existing_items') :
              ~existing_items'[i].is_manual =>
                  (existing_items'[i].uid \in Keys(active_items')
                      <=> existing_items'[i].uid \in ErrorUids(new_errors'))
        /\ \A j \in 1..Len(active_items') :
              LET out == active_items'[j]
              IN  IF out.uid \in Keys(existing_items')
                  THEN LET old == DictGet(existing_items', out.uid)
                       IN  out.is_manual = old.is_manual /\ out.created_date = old.created_date
                  ELSE ~out.is_manual /\ out.created_date = strftime(today)
        /\ (runs > 0 /\ report_rows = Render(active_items)) =>
              \A j \in 1..Len(active_items') :
                  LET out == active_items'[j]
                  IN  out.uid \in Keys(active_items) =>
                          LET old == DictGet(active_items, out.uid)
                          IN  /\ out.is_manual = old.is_manual
                              /\ out.created_date = old.created_date
                              /\ out.uid \in ErrorUids(new_errors') \/ old.is_manual
    ]_vars

\* C2 witness: a second run, on a later day and fed with the first run's
\* output, refreshed an item (its description changed) and created another.
C2_Witness ==
    /\ runs = 2
    /\ report_data = Render(existing_items)
    /\ run_day > 0
    /\ \E j \in 1..Len(active_items) :
          /\ active_items[j].uid \in Keys(existing_items)
          /\ ~active_items[j].is_manual
          /\ active_items[j].created_date = strftime(0)
          /\ active_items[j].description # DictGet(existing_items, active_items[j].uid).description
    /\ \E j \in 1..Len(active_items) :
          /\ active_items[j].uid \notin Keys(existing_items)
          /\ active_items[j].created_date = strftime(run_day)

\* C3 (as claimed): when a run's output is rendered, parsed back and
\* reconciled again with the same findings, possibly on a later day, the
\* second output equals the first: the same items with the same fields
\* (created_date included), in the same order.
C3_Idempotent ==
    [][(runs > 0 /\ runs' = runs + 1 /\ report_rows = Render(active_items)
            /\ new_errors' = new_errors)
        => active_items' = active_items]_vars

\* The number of rows of a grid that pass a test
RowsWith(rows, Test(_)) == Cardinality({i \in 1..Len(rows) : Test(rows[i])})

IsManualRow(row) == Len(row) >= 2 /\ is_manual_cell(row[2])

\* C4 (as claimed): every previous row whose manual-flag cell marks it as
\* manual has its own item in the output of parse_existing_report followed
\* by reconcile: the output holds as many manual items as the previous grid
\* holds manual rows.
C4_ManualRowsKept ==
    runs > 0 =>
        Cardinality({j \in 1..Len(active_items) : active_items[j].is_manual})
            = RowsWith(report_data, IsManualRow)

\* What C5 means by the date of an item: the calendar date a DD.MM.YYYY text
\* denotes, as YYYYMMDD, and 0 (first) for a missing or unparseable date.
CalendarValue(d_str) ==
    LET parts == Split(d_str, ".")
    IN  IF Len(parts) = 3 /\ \A k \in 1..3 : IsIntLiteral(parts[k])
        THEN LET d == IntOf(parts[1])
                 mo == IntOf(parts[2])
                 y == IntOf(parts[3])
             IN  IF /\ Len(parts[1]) = 2 /\ Len(parts[2]) = 2 /\ Len(parts[3]) = 4
                    /\ d \in 1..31 /\ mo \in 1..12
                 THEN y * 10000 + mo * 100 + d
                 ELSE 0
        ELSE 0

ClaimedKey(item) == <<CalendarValue(item.created_date), SHEET_ORDER(item.sheet), item.error_column>>

\* C5 (as claimed): the output of reconcile is ordered by calendar date
\* (missing or unparseable dates first), then sheet priority, then error
\* column.
C5_SortedByCalendarDate ==
    runs > 0 =>
        \A i, j \in 1..Len(active_items) :
            i < j => ~KeyLess(ClaimedKey(active_items[j]), ClaimedKey(active_items[i]))

\* C6: the combined list holds the kept existing items in the order of the
\* previous report, then the new items in the order of the findings; two
\* output items of equal sort key are in the order of the combined list.
C6_StableSort ==
    runs > 0 =>
        /\ Keys(combined) = Keys(active_items) /\ Len(combined) = Len(active_items)
        /\ \A i, j \in 1..Len(combined) :
              i < j =>
                  LET a == combined[i].uid
                      b == combined[j].uid
                  IN  /\ b \in Keys(existing_items) => a \in Keys(existing_items)
                      /\ (a \in Keys(existing_items) /\ b \in Keys(existing_items)) =>
                            PosOf(existing_items, a) < PosOf(existing_items, b)
                      /\ (a \notin Keys(existing_items) /\ b \notin Keys(existing_items)) =>
                            FirstError(new_errors, a) < FirstError(new_errors, b)
        /\ \A i, j \in 1..Len(active_items) :
              (i < j /\ sort_key(active_items[i]) = sort_key(active_items[j])) =>
                  PosOf(combined, active_items[i].uid) < PosOf(combined, active_items[j].uid)

\* C6 witness: the output holds two new items of equal key, and a kept item
\* and a new item of equal key.
C6_Witness ==
    /\ runs > 0
    /\ \E i, j \in 1..Len(active_items) :
          /\ i < j
          /\ sort_key(active_items[i]) = sort_key(active_items[j])
          /\ active_items[i].uid \notin Keys(existing_items)
          /\ active_items[j].uid \notin Keys(existing_items)
    /\ \E i, j \in 1..Len(active_items) :
          /\ i < j
          /\ sort_key(active_items[i]) = sort_key(active_items[j])
          /\ active_items[i].uid \in Keys(existing_items)
          /\ active_items[j].uid \notin Keys(existing_items)

\* A row without an id that is marked manual and long enough to be parsed
IsSyntheticRow(row) == Len(row) >= 5 /\ ~Truthy(row[1]) /\ is_manual_cell(row[2])

\* C7 (as claimed): two manual rows without an id get the same uid exactly
\* when their created-date cells and their description cells agree; a row
\* without an id that is not manual is dropped.
C7_SyntheticUid ==
    \A a, b \in 1..Len(report_data) :
        LET ra == report_data[a]
            rb == report_data[b]
        IN  /\ (IsSyntheticRow(ra) /\ IsSyntheticRow(rb)) =>
                  (row_item(ra).uid = row_item(rb).uid
                      <=> (CellOr(ra, 2) = CellOr(rb, 2) /\ CellOr(ra, 6) = CellOr(rb, 6)))
            /\ (Len(ra) >= 1 /\ ~Truthy(ra[1]) /\ ~IsManualRow(ra)) => ~row_is_parsed(ra)

(***************************************************************************)
(* The identity of findings, compared two by two.                          *)
(***************************************************************************)
UidSheets == {"List", "List_1"}
UidRows == {1, 2}
UidColumns == {"Data", "1_Data"}
UidTypes == {"empty", "invalid_format"}
\* description, cell_link and admin
UidTexts == {<<"d1", "http://s/A1", "Anna">>, <<"d2", "", "Utochnit">>}

UidFindings ==
    {ValidationError(r, c, t, x[1], x[2], s, x[3]) :
        r \in UidRows, c \in UidColumns, t \in UidTypes, x \in UidTexts, s \in UidSheets}

\* Two findings are built and their uid properties read.
CompareUids(a, b) ==
    /\ vstep < MaxCompare
    /\ fa' = a
    /\ fb' = b
    /\ uid_a' = uid(a)
    /\ uid_b' = uid(b)
    /\ vstep' = vstep + 1
    /\ UNCHANGED <<report_vars, val_vars, api_vars, run_vars>>

NextUid == \E a, b \in UidFindings : CompareUids(a, b)

SpecUid == Init /\ [][NextUid]_vars

SameFour(a, b) ==
    /\ a.sheet_name = b.sheet_name
    /\ a.row_number = b.row_number
    /\ a.column = b.column
    /\ a.error_type = b.error_type

\* C8 (as claimed): with a collision-free hash, two findings have the same
\* uid exactly when they agree on sheet_name, row_number, column and
\* error_type, and the hashed texts of two different four-tuples differ.
C8_UidInjective ==
    vstep > 0 =>
        /\ (uid_a = uid_b) <=> SameFour(fa, fb)
        /\ (raw_id(fa) = raw_id(fb)) <=> SameFour(fa, fb)

(***************************************************************************)
(* More of Python's str on the model's strings.                            *)
(***************************************************************************)
UpperLetters == "ABCDEFGHIJKLMNOPQRSTUVWXYZ"
LowerLetters == "abcdefghijklmnopqrstuvwxyz"

AsciiChars == {CharAt(Ascii, i) : i \in 1..Len(Ascii)}

LowerTable ==
    [c \in AsciiChars |->
        IF \E i \in 1..Len(UpperLetters) : CharAt(UpperLetters, i) = c
        THEN CharAt(LowerLetters, CHOOSE i \in 1..Len(UpperLetters) : CharAt(UpperLetters, i) = c)
        ELSE c]

UpperTable ==
    [c \in AsciiChars |->
        IF \E i \in 1..Len(LowerLetters) : CharAt(LowerLetters, i) = c
        THEN CharAt(UpperLetters, CHOOSE i \in 1..Len(LowerLetters) : CharAt(LowerLetters, i) = c)
        ELSE c]

\* The characters of s from the i-th on, each replaced by its image under f
RECURSIVE MapStrFrom(_, _, _)
MapStrFrom(f, s, i) ==
    IF i > Len(s) THEN "" ELSE f[CharAt(s, i)] \o MapStrFrom(f, s, i + 1)

\* (the text is evaluated once, whatever expression it is given by)
MapStr(f, s) == CHOOSE r \in {MapStrFrom(f, x, 1) : x \in {s}} : TRUE

\* s.lower(), s.upper()
Lower(s) == MapStr(LowerTable, s)
Upper(s) == MapStr(UpperTable, s)

\* s.strip(): the model's only blank is the space
Blanks == [c \in AsciiChars |-> c = " "]

StripValue(s) ==
    IF \A i \in 1..Len(s) : Blanks[CharAt(s, i)] THEN ""
    ELSE SubSeq(s, CHOOSE i \in 1..Len(s) :
                       ~Blanks[CharAt(s, i)] /\ \A j \in 1..(i - 1) : Blanks[CharAt(s, j)],
                   CHOOSE i \in 1..Len(s) :
                       ~Blanks[CharAt(s, i)] /\ \A j \in (i + 1)..Len(s) : Blanks[CharAt(s, j)])

Strip(s) == CHOOSE r \in {StripValue(x) : x \in {s}} : TRUE

\* sub in s
Contains(s, sub) ==
    \E i \in 0..(Len(s) - Len(sub)) : SubSeq(s, i + 1, i + Len(sub)) = sub

\* s.replace(a, b) for a one-character a
RECURSIVE ReplaceFrom(_, _, _, _)
ReplaceFrom(s, a, b, i) ==
    IF i > Len(s) THEN ""
    ELSE (IF CharAt(s, i) = a THEN b ELSE CharAt(s, i)) \o ReplaceFrom(s, a, b, i + 1)

Replace(s, a, b) == CHOOSE r \in {ReplaceFrom(x, a, b, 1) : x \in {s}} : TRUE

\* re.sub(r'[^0-9]', '', s)
RECURSIVE DigitsFrom(_, _)
DigitsFrom(s, i) ==
    IF i > Len(s) THEN ""
    ELSE (IF IsDigit(CharAt(s, i)) THEN CharAt(s, i) ELSE "") \o DigitsFrom(s, i + 1)

DigitsOf(s) == CHOOSE r \in {DigitsFrom(x, 1) : x \in {s}} : TRUE

IsDigits(s) == \A i \in 1..Len(s) : IsDigit(CharAt(s, i))

HasSign(s) == Len(s) > 0 /\ CharAt(s, 1) \in {"+", "-"}
Unsigned(s) == IF HasSign(s) THEN SubSeq(s, 2, Len(s)) ELSE s
SignOf(s) == IF Len(s) > 0 /\ CharAt(s, 1) = "-" THEN 0 - 1 ELSE 1

\* Whether int(s) succeeds on a text: an optional sign and digits.
IsSignedInt(s) == Len(Unsigned(s)) > 0 /\ IsDigits(Unsigned(s))
SignedIntOf(s) == SignOf(s) * IntOf(Unsigned(s))

\* Whether float(s) succeeds on a text: an optional sign, digits and at most
\* one point.  The model's numbers hold two decimals, so a text with more
\* decimals is outside the model and is not offered as an input.
IsFloatLiteral(s) ==
    LET parts == Split(Unsigned(s), ".")
    IN  /\ Len(parts) \in {1, 2}
        /\ \A i \in 1..Len(parts) : IsDigits(parts[i])
        /\ Len(parts[1]) + (IF Len(parts) = 2 THEN Len(parts[2]) ELSE 0) > 0
        /\ Len(parts) = 2 => Len(parts[2]) <= 2

\* float(s), in hundredths
FloatOf(s) ==
    LET parts == Split(Unsigned(s), ".")
        frac == IF Len(parts) = 1 THEN 0
                ELSE IF Len(parts[2]) = 1 THEN 10 * IntOf(parts[2])
                ELSE IntOf(parts[2])
    IN  SignOf(s) * (IntOf(parts[1]) * Scale + frac)

RECURSIVE ConcatFrom(_, _)
ConcatFrom(ss, i) == IF i > Len(ss) THEN <<>> ELSE ss[i] \o ConcatFrom(ss, i + 1)

\* The concatenation of a sequence of sequences
Concat(ss) == CHOOSE r \in {ConcatFrom(x, 1) : x \in {ss}} : TRUE

\* A local variable: F of the value of v, which is evaluated once
Let(v, F(_)) == CHOOSE r \in {F(x) : x \in {v}} : TRUE

(***************************************************************************)
(* datetime.  A datetime is a day number and a time of day: days counts    *)
(* the days since 30.12.1899 (the serial date of the sheets) and frac the  *)
(* hundredths of the day that have passed since midnight.                  *)
(***************************************************************************)
datetime(days, frac) == [t |-> "datetime", days |-> days, frac |-> frac]

IsLeap(y) == (y % 4 = 0 /\ y % 100 # 0) \/ y % 400 = 0

DaysInMonth(y, m) ==
    IF m = 2 THEN (IF IsLeap(y) THEN 29 ELSE 28)
    ELSE IF m \in {4, 6, 9, 11} THEN 30
    ELSE 31

\* datetime(y, m, d) - datetime(1899, 12, 30), in days
SerialOf(y, m, d) ==
    LET yy == IF m <= 2 THEN y - 1 ELSE y
        era == yy \div 400
        yoe == yy - era * 400
        mp == IF m > 2 THEN m - 3 ELSE m + 9
        doy == (153 * mp + 2) \div 5 + d - 1
        doe == yoe * 365 + yoe \div 4 - yoe \div 100 + doy
    IN  era * 146097 + doe - 719468 + 25569

\* The calendar date <<y, m, d>> of a day number
CivilOf(days) ==
    LET z == days - 25569 + 719468
        era == z \div 146097
        doe == z - era * 146097
        yoe == (doe - doe \div 1460 + doe \div 36524 - doe \div 146096) \div 365
        doy == doe - (365 * yoe + yoe \div 4 - yoe \div 100)
        mp == (5 * doy + 2) \div 153
        d == doy - (153 * mp + 2) \div 5 + 1
        m == IF mp < 10 THEN mp + 3 ELSE mp - 9
        y == yoe + era * 400 + (IF m <= 2 THEN 1 ELSE 0)
    IN  <<y, m, d>>

\* dt.strftime("%d.%m.%Y")
strftime_dmy(dt) ==
    LET c == CivilOf(dt.days)
    IN  Pad2(c[3]) \o "." \o Pad2(c[2]) \o "." \o ToString(c[1])

\* The fields strptime accepts for %d, %m and %Y
IsDayField(p) == Len(p) \in {1, 2} /\ IsDigits(p) /\ IntOf(p) \in 1..31
IsMonthField(p) == Len(p) \in {1, 2} /\ IsDigits(p) /\ IntOf(p) \in 1..12
IsYearField(p) == Len(p) = 4 /\ IsDigits(p)

\* datetime(y, m, d), or None where the constructor raises ValueError
MakeDate(y, m, d) ==
    IF y >= 1 /\ d <= DaysInMonth(y, m) THEN datetime(SerialOf(y, m, d), 0) ELSE None

\* datetime.strptime(s, fmt) for the four formats of parse_date_value; None
\* stands for ValueError.  %d.%m is read in strptime's default year 1900
\* and then moved to the current year.
strptime(s, fmt, now_year) ==
    IF fmt = "%d.%m.%Y" \/ fmt = "%d/%m/%Y" THEN
        LET p == Split(s, IF fmt = "%d.%m.%Y" THEN "." ELSE "/")
        IN  IF Len(p) = 3 /\ IsDayField(p[1]) /\ IsMonthField(p[2]) /\ IsYearField(p[3])
            THEN MakeDate(IntOf(p[3]), IntOf(p[2]), IntOf(p[1]))
            ELSE None
    ELSE IF fmt = "%Y-%m-%d" THEN
        LET p == Split(s, "-")
        IN  IF Len(p) = 3 /\ IsYearField(p[1]) /\ IsMonthField(p[2]) /\ IsDayField(p[3])
            THEN MakeDate(IntOf(p[1]), IntOf(p[2]), IntOf(p[3]))
            ELSE None
    ELSE
        LET p == Split(s, ".")
        IN  IF Len(p) = 2 /\ IsDayField(p[1]) /\ IsMonthField(p[2])
               /\ MakeDate(1900, IntOf(p[2]), IntOf(p[1])) # None
            THEN MakeDate(now_year, IntOf(p[2]), IntOf(p[1]))
            ELSE None

DateFormats == <<"%d.%m.%Y", "%Y-%m-%d", "%d/%m/%Y", "%d.%m">>

\* The serial numbers datetime can hold: 01.01.0001 .. 31.12.9999
MinSerial == 0 - 693593
MaxSerial == 2958465

\* The number a cell holds for isinstance(val, (int, float)), in hundredths
IsNumber(val) == val.t \in {"num", "bool"}
NumberOf(val) == IF val.t = "num" THEN val.v ELSE IF val.v THEN Scale ELSE 0

\* Whether parse_date_value raises OverflowError on the value
date_overflows(val) ==
    /\ IsNumber(val)
    /\ NumberOf(val) # 0
    /\ (NumberOf(val) < MinSerial * Scale \/ NumberOf(val) >= (MaxSerial + 1) * Scale)

\* utils.parse_date_value; now is datetime.now()
parse_date_value(val, now) ==
    IF ~Truthy(val) THEN None
    ELSE IF IsNumber(val)
    THEN datetime(NumberOf(val) \div Scale, NumberOf(val) % Scale)
    ELSE Let(Split(val.v, " "), LAMBDA parts :
         Let([i \in 1..Len(DateFormats) |->
                 strptime(parts[Len(parts)], DateFormats[i], CivilOf(now.days)[1])],
             LAMBDA parsed :
                 IF \E i \in 1..Len(DateFormats) : parsed[i] # None
                 THEN parsed[CHOOSE i \in 1..Len(DateFormats) :
                                parsed[i] # None /\ \A j \in 1..(i - 1) : parsed[j] = None]
                 ELSE None))

\* a > b, a < b on datetimes
DtGreater(a, b) == a.days > b.days \/ (a.days = b.days /\ a.frac > b.frac)
DtLess(a, b) == DtGreater(b, a)

\* now.replace(hour=0, minute=0, second=0, microsecond=0)
Midnight(now) == datetime(now.days, 0)

(***************************************************************************)
(* utils.py: numbers.  Money is held in hundredths (Scale), a discount     *)
(* rate in ten-thousandths (RateScale) and a price after discount in       *)
(* millionths (Scale * RateScale).                                         *)
(***************************************************************************)
RateScale == 10000

validate_phone_format(phone) ==
    IF ~Truthy(phone) THEN FALSE
    ELSE LET clean_phone == DigitsOf(Fmt(phone))
         IN  Len(clean_phone) = 11 /\ StartsWith(clean_phone, "7")

\* str(val).replace(" ", "").replace(",", ".")
clean_number(s) == Replace(Replace(s, " ", ""), ",", ".")

parse_float(val) ==
    IF val = S("") THEN 0
    ELSE IF IsNumber(val) THEN NumberOf(val)
    ELSE LET clean_val == Replace(clean_number(val.v), "%", "")
         IN  IF IsFloatLiteral(clean_val) THEN FloatOf(clean_val) ELSE 0

\* The percent sign is left in the text given to float()
parse_discount_percent_kept(val) ==
    IF val = S("") THEN 0
    ELSE IF IsNumber(val) THEN NumberOf(val) * (RateScale \div Scale)
    ELSE LET clean_val == clean_number(val.v)
         IN  IF IsFloatLiteral(clean_val)
             THEN FloatOf(clean_val) * (RateScale \div Scale)
             ELSE 0

\* The discount rate, in ten-thousandths
parse_discount(val) ==
    IF val = S("") THEN 0
    ELSE IF IsNumber(val) THEN NumberOf(val) * (RateScale \div Scale)
    ELSE LET clean_val == Replace(clean_number(val.v), "%", "")
             is_percent == Contains(val.v, "%")
         IN  IF IsFloatLiteral(clean_val)
             THEN (IF is_percent THEN FloatOf(clean_val)
                   ELSE FloatOf(clean_val) * (RateScale \div Scale))
             ELSE 0

\* abs() left out of the comparison
Abs_missing(x) == x

Abs(x) == IF x < 0 THEN 0 - x ELSE x

\* round(v / unit) to the nearest integer, ties to even
RoundDiv(v, unit) ==
    LET q == v \div unit
        r == v % unit
    IN  IF 2 * r > unit \/ (2 * r = unit /\ q % 2 = 1) THEN q + 1 ELSE q

Pad3(n) == IF n < 10 THEN "00" \o ToString(n) ELSE IF n < 100 THEN "0" \o ToString(n) ELSE ToString(n)

\* The thousands grouping of f"{n:,}"
RECURSIVE Grouped(_)
Grouped(n) == IF n < 1000 THEN ToString(n) ELSE Grouped(n \div 1000) \o "," \o Pad3(n % 1000)

\* f"{val:,.2f}" of a value given in units of 1/unit
fmt_2f(v, unit, grouped) ==
    LET cents == Abs(RoundDiv(v, unit \div Scale))
        whole == cents \div Scale
    IN  (IF v < 0 THEN "-" ELSE "") \o (IF grouped THEN Grouped(whole) ELSE ToString(whole))
        \o "." \o Pad2(cents % Scale)

\* utils.format_money: 8 888,00
format_money(v, unit) ==
    Replace(Replace(Replace(fmt_2f(v, unit, TRUE), ",", "X"), ".", ","), "X", " ")

(***************************************************************************)
(* validators/base.py: BaseValidator                                       *)
(***************************************************************************)
\* headers.index(x), 0-based
IndexOf(seq, x) ==
    (CHOOSE i \in 1..Len(seq) : seq[i] = x /\ \A j \in 1..(i - 1) : seq[j] # x) - 1

\* {column name: index}: every header cell with the index of its first
\* occurrence
_map_columns(headers) ==
    [h \in {headers[i] : i \in 1..Len(headers)} |-> IndexOf(headers, h)]

BaseValidator(data, required_columns, spreadsheet_id, sheet_name, sheet_id) ==
    [data |-> data, required_columns |-> required_columns,
     spreadsheet_id |-> spreadsheet_id, sheet_name |-> sheet_name, sheet_id |-> sheet_id,
     headers |-> IF Len(data) > 0 THEN data[1] ELSE <<>>,
     column_indices |-> _map_columns(IF Len(data) > 0 THEN data[1] ELSE <<>>)]

\* col_name in self.column_indices
HasColumn(self, col_name) == S(col_name) \in DOMAIN self.column_indices

RECURSIVE _get_col_letter(_)
_get_col_letter(col_idx) ==
    LET n == col_idx + 1
        q == (n - 1) \div 26
        remainder == (n - 1) % 26
    IN  (IF q > 0 THEN _get_col_letter(q - 1) ELSE "") \o CharAt(UpperLetters, remainder + 1)

\* Mutant of _generate_link: the range names the 0-based row index.
_generate_link_zero_based(self, row_idx, col_name) ==
    LET range_str ==
            IF col_name # "" /\ HasColumn(self, col_name)
            THEN _get_col_letter(self.column_indices[S(col_name)]) \o ToString(row_idx)
            ELSE "A" \o ToString(row_idx)
    IN  "https://docs.google.com/spreadsheets/d/" \o self.spreadsheet_id \o "/edit#gid="
        \o ToString(self.sheet_id) \o "&range=" \o range_str

_generate_link(self, row_idx, col_name) ==
    LET range_str ==
            IF col_name # "" /\ HasColumn(self, col_name)
            THEN _get_col_letter(self.column_indices[S(col_name)]) \o ToString(row_idx + 1)
            ELSE "A" \o ToString(row_idx + 1)
    IN  "https://docs.google.com/spreadsheets/d/" \o self.spreadsheet_id \o "/edit#gid="
        \o ToString(self.sheet_id) \o "&range=" \o range_str

_get_val(self, row, col_name) ==
    IF HasColumn(self, col_name) /\ self.column_indices[S(col_name)] < Len(row)
    THEN LET val == row[self.column_indices[S(col_name)] + 1]
         IN  IF val.t = "str" THEN S(Strip(val.v)) ELSE val
    ELSE S("")

\* The required columns the header row lacks, in the order of the list
missing_columns(self) ==
    SelectSeq(self.required_columns, LAMBDA col : ~HasColumn(self, col))

\* Whether validate() reaches its loop over the data rows
scans_rows(self) == Len(self.data) > 0 /\ Len(missing_columns(self)) = 0

\* BaseValidator.validate; row_errors[i] is validate_row(i, data[i]) of the
\* subclass for the i-th data row
validate(self, row_errors) ==
    IF Len(self.data) = 0 THEN <<>>
    ELSE IF Len(missing_columns(self)) > 0
    THEN <<ValidationError(0, missing_columns(self)[1], "missing_column",
                           "Kolonka ne naidena", "", self.sheet_name, "")>>
    ELSE Concat([i \in 1..(Len(self.data) - 1) |-> row_errors[i]])

(***************************************************************************)
(* validators/sales.py: SalesValidator                                     *)
(***************************************************************************)
\* A boolean cell, or the text TRUE / ISTINA
is_flag_set(val) ==
    IF val.t = "bool" THEN val.v
    ELSE IF val.t = "str" THEN Upper(val.v) \in {"TRUE", "ISTINA"}
    ELSE FALSE

\* Step 0 of validate_row: the row has no date or a date after today
sales_date_skipped(self, row, now) ==
    LET dt == parse_date_value(_get_val(self, row, "Data"), now)
    IN  dt = None \/ DtGreater(dt, Midnight(now))

\* Step 1 of validate_row: which rows are checked at all
should_validate(self, row) ==
    \/ Truthy(_get_val(self, row, "Klient"))
    \/ Truthy(_get_val(self, row, "Produkt"))
    \/ is_flag_set(_get_val(self, row, "Probili na evotore"))
    \/ is_flag_set(_get_val(self, row, "Vnesli v CRM"))

\* The list without its last entry
SpecialProducts_without_certificate ==
    <<[words |-> {"podarok"}, description |-> "Utochnit povod dlya podarka zanyatiya"],
      [words |-> {"vozvrat abonementa"}, description |-> "Utochnit prichinu vozvrata abonementa"],
      [words |-> {"pereraschyot", "pereraschet"}, description |-> "Utochnit prichinu pereraschyota"]>>

SpecialProducts ==
    <<[words |-> {"podarok"}, description |-> "Utochnit povod dlya podarka zanyatiya"],
      [words |-> {"vozvrat abonementa"}, description |-> "Utochnit prichinu vozvrata abonementa"],
      [words |-> {"pereraschyot", "pereraschet"}, description |-> "Utochnit prichinu pereraschyota"],
      [words |-> {"sertifikat"}, description |-> "Utochnit informatsiyu o sertifikate"]>>

\* A payment column left out of the list
payment_fields_without_debt == {"Nalichnye", "Perevod", "Terminal"}

\* The payment columns, which are checked by their sum only
payment_fields == {"Nalichnye", "Perevod", "Terminal", "Vdolg"}

sales_validate_row(self, row_idx, row, now) ==
    LET sheet_row_num == row_idx + 2
        admin_val == _get_val(self, row, "Admin")
        admin == IF Truthy(admin_val) THEN Strip(Fmt(admin_val)) ELSE "Utochnit"
        Err(col, type, desc) ==
            ValidationError(sheet_row_num, col, type, desc,
                            _generate_link(self, sheet_row_num - 1, col), self.sheet_name, admin)
        \* 0.1 "utochnit" in a required cell
        clarify ==
            Concat([i \in 1..Len(self.required_columns) |->
                    LET col == self.required_columns[i] IN
                    LET val == _get_val(self, row, col)
                    IN  IF val.t = "str" /\ Contains(Lower(val.v), "utochnit")
                        THEN <<Err(col, "clarify_needed", "Trebuetsya utochnenie: " \o val.v)>>
                        ELSE <<>>])
        product == _get_val(self, row, "Produkt")
        is_evotor == is_flag_set(_get_val(self, row, "Probili na evotore"))
        is_crm == is_flag_set(_get_val(self, row, "Vnesli v CRM"))
        \* 2. required fields
        training_type == Fmt(_get_val(self, row, "Tip"))
        is_goods == training_type = "Tovar"
        exempt(col) ==
            \/ col \in {"Skidka", "Kommentarii"}
            \/ col \in payment_fields
            \/ col \in {"Bonus admina", "Bonus trenera"}
            \/ (col = "Trener" /\ (is_goods \/ training_type \notin {"Bassein", "Vanny"}))
        required ==
            Concat([i \in 1..Len(self.required_columns) |->
                    LET col == self.required_columns[i] IN
                    IF ~exempt(col) /\ _get_val(self, row, col) = S("")
                    THEN <<Err(col, "empty", "Pole '" \o col \o "' dolzhno byt zapolneno")>>
                    ELSE <<>>])
        \* 3. price arithmetic
        full_price == parse_float(_get_val(self, row, "Polnaya stoimost"))
        discount_rate == parse_discount(_get_val(self, row, "Skidka"))
        final_price == parse_float(_get_val(self, row, "Okonchatelnaya stoimost"))
        calc_final == full_price * (RateScale - discount_rate)
        fmt_disc == Replace(fmt_2f(discount_rate, RateScale \div Scale, FALSE), ".", ",") \o "%"
        math ==
            IF Abs(calc_final - final_price * RateScale) > Scale * RateScale
            THEN <<Err("Okonchatelnaya stoimost", "math_error",
                       "Oshibka rascheta: " \o format_money(full_price, Scale) \o " * (1 - "
                       \o fmt_disc \o ") = " \o format_money(calc_final, Scale * RateScale)
                       \o ", a ukazano " \o format_money(final_price, Scale))>>
            ELSE <<>>
        \* 4. payment
        sum_pay == parse_float(_get_val(self, row, "Nalichnye"))
                   + parse_float(_get_val(self, row, "Perevod"))
                   + parse_float(_get_val(self, row, "Terminal"))
                   + parse_float(_get_val(self, row, "Vdolg"))
        payment ==
            IF Abs(sum_pay - final_price) > Scale
            THEN <<Err("Okonchatelnaya stoimost", "payment_error",
                       "Summa oplaty (" \o format_money(sum_pay, Scale)
                       \o ") ne sovpadaet s tsenoi (" \o format_money(final_price, Scale) \o ")")>>
            ELSE <<>>
        \* 5. the sale was carried through
        is_debt_return ==
            Contains(Lower(training_type), "dolg") \/ Contains(Lower(Fmt(product)), "dolg")
        process ==
            IF is_goods
            THEN (IF is_crm
                  THEN <<Err("Vnesli v CRM", "process_error",
                             "Dlya tovarov 'Vnesli v CRM' dolzhno byt FALSE")>>
                  ELSE <<>>)
            ELSE (IF final_price > 0 /\ ~is_crm
                  THEN <<Err("Vnesli v CRM", "process_error", "Prodazha ne vnesena v CRM")>>
                  ELSE <<>>)
                 \o
                 (IF final_price > 0 /\ ~is_debt_return /\ ~is_evotor
                  THEN <<Err("Probili na evotore", "process_error", "Chek ne probit na Evotore")>>
                  ELSE <<>>)
        \* 6. comment
        comment == Strip(Fmt(_get_val(self, row, "Kommentarii")))
        product_lower == Lower(Fmt(product))
        is_special(k) == \E w \in SpecialProducts[k].words : Contains(product_lower, w)
        is_special_product == \E k \in 1..Len(SpecialProducts) : is_special(k)
        special ==
            IF is_special_product /\ comment = ""
            THEN <<Err("Kommentarii", "empty",
                       SpecialProducts[CHOOSE k \in 1..Len(SpecialProducts) :
                           is_special(k) /\ \A j \in 1..(k - 1) : ~is_special(j)].description)>>
            ELSE <<>>
        full_discount ==
            IF ~is_special_product /\ discount_rate * 100 >= 99 * RateScale /\ comment = ""
            THEN <<Err("Kommentarii", "empty", "Pri skidke 100% obyazatelen kommentarii")>>
            ELSE <<>>
    IN  IF sales_date_skipped(self, row, now) THEN <<>>
        ELSE IF ~should_validate(self, row) THEN <<>>
        ELSE clarify \o required \o math \o payment \o process \o special \o full_discount

\* Whether validate_row raises on the row
sales_row_raises(self, row) == date_overflows(_get_val(self, row, "Data"))

\* The data rows before the first one that raises
rows_before_raise(self, raises) ==
    LET n == Len(self.data) - 1
    IN  IF \E i \in 1..n : raises[i]
        THEN 1..((CHOOSE i \in 1..n : raises[i] /\ \A j \in 1..(i - 1) : ~raises[j]) - 1)
        ELSE 1..n

(***************************************************************************)
(* validators/trainings.py: TrainingsValidator                             *)
(***************************************************************************)
VALID_STATUSES ==
    {"Administrator", "Otrabotano", "Otmena po vine tsentra", "Otmena po vine klienta",
     "Spravka", "Propusk bez spisaniya", "Propusk", "Loyalnyi propusk", "Perenos", "Smena",
     "Posetili"}

cancellation_statuses ==
    {"Otmena po vine tsentra", "Propusk bez spisaniya", "Propusk", "Loyalnyi propusk"}

\* One of the two statuses is left out
confirmation_statuses_without_negative == {"Podtverdili"}

confirmation_statuses == {"Podtverdili", "Ne podtverdili"}

\* a == b on two cell values
PyEq(a, b) == IF IsNumber(a) /\ IsNumber(b) THEN NumberOf(a) = NumberOf(b) ELSE a = b

\* a text cell whose text is one of a list
InTexts(val, texts) == val.t = "str" /\ val.v \in texts

\* The first shift of the date is taken, whatever its category
_find_admin_first_shift(self, date_cell) ==
    IF ~Truthy(date_cell) THEN "Utochnit"
    ELSE Let(SelectSeq(Tail(self.data), LAMBDA row :
                 /\ PyEq(_get_val(self, row, "Data"), date_cell)
                 /\ _get_val(self, row, "Tip") = S("Administrator")
                 /\ _get_val(self, row, "Klient") = S("Administrator")
                 /\ Truthy(_get_val(self, row, "Sotrudnik"))),
             LAMBDA shifts :
                 IF Len(shifts) = 0 THEN "Utochnit"
                 ELSE Fmt(_get_val(self, shifts[1], "Sotrudnik")))

\* The admin on duty on the date: the shift rows of the whole sheet with
\* the same date cell, "Onlain" first, then "V tsentre", then the first.
_find_admin_on_duty(self, date_cell) ==
    IF ~Truthy(date_cell) THEN "Utochnit"
    ELSE Let(SelectSeq(Tail(self.data), LAMBDA row :
                 /\ PyEq(_get_val(self, row, "Data"), date_cell)
                 /\ _get_val(self, row, "Tip") = S("Administrator")
                 /\ _get_val(self, row, "Klient") = S("Administrator")
                 /\ Truthy(_get_val(self, row, "Sotrudnik"))),
             LAMBDA shifts :
         Let([i \in 1..Len(shifts) |->
                 [employee |-> _get_val(self, shifts[i], "Sotrudnik"),
                  category |-> _get_val(self, shifts[i], "Kategoriya")]],
             LAMBDA candidates :
         Let([word \in {"Onlain", "V tsentre"} |->
                 SelectSeq(candidates, LAMBDA c :
                     Truthy(c.category) /\ Contains(Fmt(c.category), word))],
             LAMBDA with :
                 IF Len(candidates) = 0 THEN "Utochnit"
                 ELSE IF Len(with["Onlain"]) > 0 THEN Fmt(with["Onlain"][1].employee)
                 ELSE IF Len(with["V tsentre"]) > 0 THEN Fmt(with["V tsentre"][1].employee)
                 ELSE Fmt(candidates[1].employee))))

\* Step 0 of validate_row: the row has a date and it is after today
trainings_date_skipped(self, row, now) ==
    LET dt == parse_date_value(_get_val(self, row, "Data"), now)
    IN  dt # None /\ DtGreater(dt, Midnight(now))

\* Step 0.1 of validate_row: a day without a shift
is_empty_day(self, row) ==
    /\ _get_val(self, row, "Klient") = S("Administrator")
    /\ _get_val(self, row, "Status") = S("Administrator")
    /\ _get_val(self, row, "Tip") = S("Administrator")
    /\ ~Truthy(_get_val(self, row, "Nachalo"))
    /\ ~Truthy(_get_val(self, row, "Konets"))
    /\ ~Truthy(_get_val(self, row, "Sotrudnik"))

trainings_validate_row(self, row_idx, row, now) ==
    Let(_find_admin_on_duty(self, _get_val(self, row, "Data")), LAMBDA admin :
    Let(parse_date_value(_get_val(self, row, "Data"), now), LAMBDA dt :
    LET sheet_row_num == row_idx + 1
        client == _get_val(self, row, "Klient")
        status == _get_val(self, row, "Status")
        training_type == _get_val(self, row, "Tip")
        start == _get_val(self, row, "Nachalo")
        end == _get_val(self, row, "Konets")
        employee == _get_val(self, row, "Sotrudnik")
        Err(col, type, desc) ==
            ValidationError(sheet_row_num, col, type, desc,
                            _generate_link(self, row_idx, col), self.sheet_name, admin)
        empty_description(col) ==
            IF col = "Nachalo" THEN "Otsutstvuet vremya nachala smeny"
            ELSE IF col = "Konets" THEN "Otsutstvuet vremya okonchaniya smeny"
            ELSE IF col = "Data" THEN "Otsutstvuet data"
            ELSE IF col = "Sotrudnik"
            THEN (IF training_type = S("Administrator") THEN "Ne naznachen administrator"
                  ELSE "Ne naznachen trener")
            ELSE "Pole '" \o col \o "' dolzhno byt zapolneno"
        \* 1. required fields
        required ==
            Concat([i \in 1..Len(self.required_columns) |->
                    LET col == self.required_columns[i] IN
                    LET val == _get_val(self, row, col)
                    IN  IF ~Truthy(val) /\ ~PyEq(val, N(0))
                        THEN (IF col = "Sotrudnik" /\ training_type = S("Administrator")
                                 /\ ~Truthy(start) /\ ~Truthy(end)
                              THEN <<>>
                              ELSE <<Err(col, "empty", empty_description(col))>>)
                        ELSE (IF col = "Data" /\ dt = None
                              THEN <<Err(col, "invalid_format",
                                         "Znachenie '" \o Fmt(val)
                                         \o "' ne yavlyaetsya korrektnoi datoi")>>
                              ELSE <<>>)
                             \o
                             (IF col = "Zamena?" /\ val.t = "str"
                                 /\ Lower(val.v) \notin {"da", "net", "yes", "no"}
                              THEN <<Err(col, "invalid_format",
                                         "Znachenie '" \o val.v \o "' dolzhno byt Da ili Net")>>
                              ELSE <<>>)])
        \* 2. status
        status_errors ==
            IF ~Truthy(status) THEN <<>>
            ELSE IF InTexts(status, confirmation_statuses)
            THEN (IF dt # None /\ DtLess(dt, Midnight(now))
                  THEN <<Err("Status", "invalid_value",
                             "Status '" \o status.v \o "' nedopustim dlya proshedshikh dat")>>
                  ELSE <<>>)
            ELSE IF ~InTexts(status, VALID_STATUSES)
            THEN <<Err("Status", "invalid_value",
                       "Nedopustimyi status: '" \o Fmt(status) \o "'")>>
            ELSE <<>>
        \* 3. a client needs an employee
        client_errors ==
            IF /\ Truthy(client) /\ client # S("Administrator")
               /\ status # S("Administrator")
               /\ (~Truthy(employee) \/ employee = S("Bez trenera"))
            THEN <<Err("Sotrudnik", "empty",
                       "Dlya klienta sotrudnik obyazatelen i ne mozhet byt 'Bez trenera'")>>
            ELSE <<>>
        \* 5. #REF! in the comment
        comment == _get_val(self, row, "Kommentarii")
        ref_errors ==
            IF Truthy(comment) /\ Contains(Fmt(comment), "#REF!")
            THEN <<Err("Kommentarii", "formula_error", "Oshibka formuly v kommentarii (#REF!)")>>
            ELSE <<>>
        \* 6. a cancellation needs a reason
        comment_str == Strip(Fmt(comment))
        cancel_errors ==
            IF InTexts(status, cancellation_statuses)
               /\ (comment_str = "" \/ comment_str = "Ukazat prichinu propuska")
            THEN <<Err("Kommentarii", "empty",
                       "Dlya statusa '" \o status.v \o "' trebuetsya ukazat prichinu propuska")>>
            ELSE <<>>
    IN  IF trainings_date_skipped(self, row, now) THEN <<>>
        ELSE IF is_empty_day(self, row) THEN <<>>
        ELSE required \o status_errors \o client_errors \o ref_errors \o cancel_errors))

\* Whether validate_row raises on the row: the date is out of datetime's
\* range, or val.lower() meets a "Zamena?" cell that is not a text
trainings_row_raises(self, row, now) ==
    \/ date_overflows(_get_val(self, row, "Data"))
    \/ /\ ~trainings_date_skipped(self, row, now)
       /\ ~is_empty_day(self, row)
       /\ \E i \in 1..Len(self.required_columns) : self.required_columns[i] = "Zamena?"
       /\ _get_val(self, row, "Zamena?").t # "str"

\* The first row of a client is kept instead of the last
RECURSIVE client_first_sessions(_, _, _)
client_first_sessions(self, i, sessions) ==
    IF i > Len(self.data) - 1 THEN sessions
    ELSE LET client == Strip(Fmt(_get_val(self, self.data[i + 1], "Klient")))
         IN  IF client = "" \/ client = "Administrator"
                \/ \E k \in 1..Len(sessions) : sessions[k].client = client
             THEN client_first_sessions(self, i + 1, sessions)
             ELSE client_first_sessions(self, i + 1,
                      Append(sessions, [client |-> client, row_idx |-> i]))

\* client_last_sessions: for every client but "Administrator" the index of the
\* last row, in the order in which the clients first appear
RECURSIVE client_last_sessions(_, _, _)
client_last_sessions(self, i, sessions) ==
    IF i > Len(self.data) - 1 THEN sessions
    ELSE LET client == Strip(Fmt(_get_val(self, self.data[i + 1], "Klient")))
         IN  IF client = "" \/ client = "Administrator"
             THEN client_last_sessions(self, i + 1, sessions)
             ELSE IF \E k \in 1..Len(sessions) : sessions[k].client = client
             THEN client_last_sessions(self, i + 1,
                      [k \in 1..Len(sessions) |->
                          IF sessions[k].client = client
                          THEN [client |-> client, row_idx |-> i]
                          ELSE sessions[k]])
             ELSE client_last_sessions(self, i + 1,
                      Append(sessions, [client |-> client, row_idx |-> i]))

\* int(x) if x else 0, with ok = FALSE where int() raises ValueError
int_or_zero(val) ==
    IF ~Truthy(val) THEN [ok |-> TRUE, n |-> 0]
    ELSE IF IsNumber(val)
    THEN [ok |-> TRUE,
          n |-> IF NumberOf(val) < 0 THEN 0 - ((0 - NumberOf(val)) \div Scale)
                ELSE NumberOf(val) \div Scale]
    ELSE IF IsSignedInt(val.v) THEN [ok |-> TRUE, n |-> SignedIntOf(val.v)]
    ELSE [ok |-> FALSE, n |-> 0]

\* The check of one client's last session
exhaustion_error(self, row_idx) ==
    LET row == self.data[row_idx + 1]
        visits == int_or_zero(_get_val(self, row, "Vsego poseshcheno"))
        remaining == int_or_zero(_get_val(self, row, "Ostatok zanyatii"))
        comment == Strip(Fmt(_get_val(self, row, "Kommentarii")))
    IN  IF visits.ok /\ remaining.ok /\ visits.n > 1 /\ remaining.n = 0 /\ comment = ""
        THEN <<ValidationError(row_idx + 1, "Kommentarii", "empty",
                   "Trebuetsya kommentarii ob otvete klienta na predlozhenie prodlit abonement",
                   _generate_link(self, row_idx, "Kommentarii"), self.sheet_name,
                   _find_admin_on_duty(self, _get_val(self, row, "Data")))>>
        ELSE <<>>

\* TrainingsValidator.validate: BaseValidator.validate, then the check of
\* every client's last session
trainings_validate(self, now) ==
    LET errors == validate(self, [i \in 1..(Len(self.data) - 1) |->
                                     trainings_validate_row(self, i, self.data[i + 1], now)])
        sessions == client_last_sessions(self, 1, <<>>)
    IN  IF Len(self.data) < 2 THEN errors
        ELSE errors \o Concat([k \in 1..Len(sessions) |->
                                  exhaustion_error(self, sessions[k].row_idx)])

(***************************************************************************)
(* validators/leads.py: LeadsValidator                                     *)
(***************************************************************************)
\* The list without its last entry
client_fields_without_type ==
    <<"Familiya vzroslogo", "Imya vzroslogo", "Imya rebenka", "Data rozhdeniya rebenka",
      "Pol rebyonka">>

client_fields ==
    <<"Familiya vzroslogo", "Imya vzroslogo", "Imya rebenka", "Data rozhdeniya rebenka",
      "Pol rebyonka", "Tip">>

_add_date_to_description(description, date_str) == description \o " (" \o date_str \o ")"

\* The guard of rule 2 without its test of the client-admin cell
client_admin_missing_unguarded(core_filled, client_admin_val) == core_filled

\* The guard of rule 2: core_filled and not client_admin_val
client_admin_missing(core_filled, client_admin_val) ==
    core_filled /\ ~Truthy(client_admin_val)

leads_validate_row(self, row_idx, row, now) ==
    Let(_get_val(self, row, "Data obrashcheniya"), LAMBDA date_cell :
    Let(parse_date_value(date_cell, now), LAMBDA dt :
    Let(IF dt # None THEN strftime_dmy(dt)
        ELSE IF Truthy(date_cell) THEN Fmt(date_cell)
        ELSE "", LAMBDA formatted_date :
    LET sheet_row_num == row_idx + 2
        lead_admin_val == _get_val(self, row, "Admin (sozdal lida)")
        lead_admin == IF Truthy(lead_admin_val) THEN Strip(Fmt(lead_admin_val)) ELSE "Utochnit"
        Dated(desc) ==
            IF formatted_date # "" THEN _add_date_to_description(desc, formatted_date) ELSE desc
        Err(col, type, desc, admin) ==
            ValidationError(sheet_row_num, col, type, Dated(desc),
                            _generate_link(self, sheet_row_num - 1, col), self.sheet_name, admin)
        \* 1. the lead
        required ==
            Concat([i \in 1..Len(self.required_columns) |->
                    LET col == self.required_columns[i] IN
                    IF ~Truthy(_get_val(self, row, col))
                    THEN <<Err(col, "empty",
                               "Pole '" \o col \o "' obyazatelno dlya sozdaniya lida", lead_admin)>>
                    ELSE <<>>])
        \* 2. the client
        client_admin_val == _get_val(self, row, "Admin (sozdal klienta)")
        client_admin ==
            IF Truthy(client_admin_val) THEN Strip(Fmt(client_admin_val)) ELSE "Utochnit"
        phone_errors(admin) ==
            IF ~validate_phone_format(_get_val(self, row, "Mobilnyi"))
            THEN <<Err("Mobilnyi", "invalid_format",
                       "Telefon dolzhen byt v formate 79XXXXXXXXX (11 tsifr)", admin)>>
            ELSE <<>>
        rule1 ==
            IF Truthy(client_admin_val)
            THEN Concat([i \in 1..Len(client_fields) |->
                         LET field == client_fields[i] IN
                         IF ~Truthy(_get_val(self, row, field))
                         THEN <<Err(field, "empty",
                                    "Pole '" \o field \o "' obyazatelno pri sozdanii klienta",
                                    client_admin)>>
                         ELSE <<>>])
                 \o phone_errors(client_admin)
            ELSE <<>>
        core_filled == \A i \in 1..4 : Truthy(_get_val(self, row, client_fields[i]))
        rule2 ==
            IF client_admin_missing(core_filled, client_admin_val)
            THEN <<Err("Admin (sozdal klienta)", "empty",
                       "Admin (sozdal klienta) obyazatelen esli zapolneny dannye klienta",
                       "Utochnit")>>
                 \o phone_errors("Utochnit")
            ELSE <<>>
    IN  required \o rule1 \o rule2)))

leads_row_raises(self, row) == date_overflows(_get_val(self, row, "Data obrashcheniya"))

(***************************************************************************)
(* validator.py: the module main() imports its validators from.  Its      *)
(* BaseValidator, SalesValidator, ValidationError and helper functions are *)
(* the text of validators/base.py, validators/sales.py, models.py and      *)
(* utils.py; its TrainingsValidator and LeadsValidator are older versions. *)
(***************************************************************************)
\* validator.py, TrainingsValidator._find_admin_for_training: the rows of
\* type "Administrator" with the client, the status and the date of the
\* session; category "Onlain" first, then "V tsentre", then the first
_find_admin_for_training(self, client, status, date_cell) ==
    IF ~Truthy(client) \/ ~Truthy(status) \/ ~Truthy(date_cell) THEN "Utochnit"
    ELSE Let(SelectSeq(Tail(self.data), LAMBDA row :
                 /\ PyEq(_get_val(self, row, "Klient"), client)
                 /\ PyEq(_get_val(self, row, "Status"), status)
                 /\ _get_val(self, row, "Tip") = S("Administrator")
                 /\ PyEq(_get_val(self, row, "Data"), date_cell)
                 /\ Truthy(_get_val(self, row, "Sotrudnik"))),
             LAMBDA found :
         Let([i \in 1..Len(found) |->
                 [employee |-> _get_val(self, found[i], "Sotrudnik"),
                  category |-> _get_val(self, found[i], "Kategoriya")]],
             LAMBDA candidates :
         Let([word \in {"Onlain", "V tsentre"} |->
                 SelectSeq(candidates, LAMBDA c : c.category = S(word))],
             LAMBDA with :
                 IF Len(candidates) = 0 THEN "Utochnit"
                 ELSE IF Len(with["Onlain"]) > 0 THEN Fmt(with["Onlain"][1].employee)
                 ELSE IF Len(with["V tsentre"]) > 0 THEN Fmt(with["V tsentre"][1].employee)
                 ELSE Fmt(candidates[1].employee))))

\* validator.py, TrainingsValidator.validate_row
validator_trainings_validate_row(self, row_idx, row, now) ==
    Let(IF InTexts(_get_val(self, row, "Status"), cancellation_statuses)
        THEN (IF Truthy(_get_val(self, row, "Sotrudnik"))
              THEN Fmt(_get_val(self, row, "Sotrudnik")) ELSE "Utochnit")
        ELSE _find_admin_for_training(self, _get_val(self, row, "Klient"),
                                      _get_val(self, row, "Status"),
                                      _get_val(self, row, "Data")), LAMBDA admin :
    Let(parse_date_value(_get_val(self, row, "Data"), now), LAMBDA dt :
    LET sheet_row_num == row_idx + 1
        client == _get_val(self, row, "Klient")
        status == _get_val(self, row, "Status")
        training_type == _get_val(self, row, "Tip")
        start == _get_val(self, row, "Nachalo")
        end == _get_val(self, row, "Konets")
        employee == _get_val(self, row, "Sotrudnik")
        Err(col, type, desc) ==
            ValidationError(sheet_row_num, col, type, desc,
                            _generate_link(self, row_idx, col), self.sheet_name, admin)
        empty_description(col) ==
            IF col = "Nachalo" THEN "Otsutstvuet vremya nachala"
            ELSE IF col = "Konets" THEN "Otsutstvuet vremya okonchaniya"
            ELSE IF col = "Data" THEN "Otsutstvuet data"
            ELSE IF col = "Sotrudnik"
            THEN (IF training_type = S("Administrator") THEN "Ne naznachen administrator"
                  ELSE "Ne naznachen trener")
            ELSE "Pole '" \o col \o "' dolzhno byt zapolneno"
        \* 1. required fields
        required ==
            Concat([i \in 1..Len(self.required_columns) |->
                    LET col == self.required_columns[i] IN
                    LET val == _get_val(self, row, col)
                    IN  IF ~Truthy(val) /\ ~PyEq(val, N(0))
                        THEN (IF col = "Sotrudnik" /\ training_type = S("Administrator")
                                 /\ ~Truthy(start) /\ ~Truthy(end)
                              THEN <<>>
                              ELSE <<Err(col, "empty", empty_description(col))>>)
                        ELSE (IF col = "Data" /\ dt = None
                              THEN <<Err(col, "invalid_format",
                                         "Znachenie '" \o Fmt(val)
                                         \o "' ne yavlyaetsya korrektnoi datoi")>>
                              ELSE <<>>)
                             \o
                             (IF col = "Zamena?" /\ val.t = "str"
                                 /\ Lower(val.v) \notin {"da", "net", "yes", "no"}
                              THEN <<Err(col, "invalid_format",
                                         "Znachenie '" \o val.v \o "' dolzhno byt Da ili Net")>>
                              ELSE <<>>)])
        \* 2. status: the allow-list alone
        status_errors ==
            IF Truthy(status) /\ ~InTexts(status, VALID_STATUSES)
            THEN <<Err("Status", "invalid_value",
                       "Nedopustimyi status: '" \o Fmt(status) \o "'")>>
            ELSE <<>>
        \* 3. a client needs an employee
        client_errors ==
            IF /\ Truthy(client) /\ client # S("Administrator")
               /\ status # S("Administrator")
               /\ (~Truthy(employee) \/ employee = S("Bez trenera"))
            THEN <<Err("Sotrudnik", "empty",
                       "Dlya klienta sotrudnik obyazatelen i ne mozhet byt 'Bez trenera'")>>
            ELSE <<>>
        \* 5. #REF! in the comment
        comment == _get_val(self, row, "Kommentarii")
        ref_errors ==
            IF Truthy(comment) /\ Contains(Fmt(comment), "#REF!")
            THEN <<Err("Kommentarii", "formula_error", "Oshibka formuly v kommentarii (#REF!)")>>
            ELSE <<>>
        \* 6. a cancellation needs a reason
        comment_str == Strip(Fmt(comment))
        cancel_errors ==
            IF InTexts(status, cancellation_statuses)
               /\ (comment_str = "" \/ comment_str = "Ukazat prichinu propuska")
            THEN <<Err("Kommentarii", "empty",
                       "Dlya statusa '" \o status.v \o "' trebuetsya ukazat prichinu propuska")>>
            ELSE <<>>
    IN  IF trainings_date_skipped(self, row, now) THEN <<>>
        ELSE IF is_empty_day(self, row) THEN <<>>
        ELSE required \o status_errors \o client_errors \o ref_errors \o cancel_errors))

\* validator.py, TrainingsValidator.validate: the check of one client's
\* last session
validator_exhaustion_error(self, row_idx) ==
    LET row == self.data[row_idx + 1]
        visits == int_or_zero(_get_val(self, row, "Vsego poseshcheno"))
        remaining == int_or_zero(_get_val(self, row, "Ostatok zanyatii"))
        comment == Strip(Fmt(_get_val(self, row, "Kommentarii")))
    IN  IF visits.ok /\ remaining.ok /\ visits.n > 1 /\ remaining.n = 0 /\ comment = ""
        THEN <<ValidationError(row_idx + 1, "Kommentarii", "empty",
                   "Trebuetsya kommentarii ob otvete klienta na predlozhenie prodlit abonement",
                   _generate_link(self, row_idx, "Kommentarii"), self.sheet_name,
                   _find_admin_for_training(self, _get_val(self, row, "Klient"),
                                            _get_val(self, row, "Status"),
                                            _get_val(self, row, "Data")))>>
        ELSE <<>>

\* validator.py, TrainingsValidator.validate
validator_trainings_validate(self, now) ==
    LET errors == validate(self, [i \in 1..(Len(self.data) - 1) |->
                                     validator_trainings_validate_row(self, i,
                                                                      self.data[i + 1], now)])
        sessions == client_last_sessions(self, 1, <<>>)
    IN  IF Len(self.data) < 2 THEN errors
        ELSE errors \o Concat([k \in 1..Len(sessions) |->
                                  validator_exhaustion_error(self, sessions[k].row_idx)])

\* validator.py, LeadsValidator.validate_row: the descriptions carry no date
validator_leads_validate_row(self, row_idx, row) ==
    LET sheet_row_num == row_idx + 2
        lead_admin_val == _get_val(self, row, "Admin (sozdal lida)")
        lead_admin == IF Truthy(lead_admin_val) THEN Strip(Fmt(lead_admin_val)) ELSE "Utochnit"
        Err(col, type, desc, admin) ==
            ValidationError(sheet_row_num, col, type, desc,
                            _generate_link(self, sheet_row_num - 1, col), self.sheet_name, admin)
        required ==
            Concat([i \in 1..Len(self.required_columns) |->
                    LET col == self.required_columns[i] IN
                    IF ~Truthy(_get_val(self, row, col))
                    THEN <<Err(col, "empty",
                               "Pole '" \o col \o "' obyazatelno dlya sozdaniya lida", lead_admin)>>
                    ELSE <<>>])
        client_admin_val == _get_val(self, row, "Admin (sozdal klienta)")
        client_admin ==
            IF Truthy(client_admin_val) THEN Strip(Fmt(client_admin_val)) ELSE "Utochnit"
        phone_errors(admin) ==
            IF ~validate_phone_format(_get_val(self, row, "Mobilnyi"))
            THEN <<Err("Mobilnyi", "invalid_format",
                       "Telefon dolzhen byt v formate 79XXXXXXXXX (11 tsifr)", admin)>>
            ELSE <<>>
        rule1 ==
            IF Truthy(client_admin_val)
            THEN Concat([i \in 1..Len(client_fields) |->
                         LET field == client_fields[i] IN
                         IF ~Truthy(_get_val(self, row, field))
                         THEN <<Err(field, "empty",
                                    "Pole '" \o field \o "' obyazatelno pri sozdanii klienta",
                                    client_admin)>>
                         ELSE <<>>])
                 \o phone_errors(client_admin)
            ELSE <<>>
        core_filled == \A i \in 1..4 : Truthy(_get_val(self, row, client_fields[i]))
        rule2 ==
            IF core_filled /\ ~Truthy(client_admin_val)
            THEN <<Err("Admin (sozdal klienta)", "empty",
                       "Admin (sozdal klienta) obyazatelen esli zapolneny dannye klienta",
                       "Utochnit")>>
                 \o phone_errors("Utochnit")
            ELSE <<>>
    IN  required \o rule1 \o rule2

(***************************************************************************)
(* config.py and runner.py: the three validations of a run.                *)
(***************************************************************************)
sales_required_columns ==
    <<"Data", "Klient", "Produkt", "Tip", "Kategoriya", "Kolichestvo", "Polnaya stoimost",
      "Skidka", "Okonchatelnaya stoimost", "Nalichnye", "Perevod", "Terminal", "Vdolg",
      "Admin", "Trener", "Kommentarii", "Bonus admina", "Bonus trenera",
      "Probili na evotore", "Vnesli v CRM">>

trainings_required_columns == <<"Data", "Nachalo", "Konets", "Sotrudnik", "Tip", "Zamena?">>

leads_required_columns == <<"Data obrashcheniya", "Zapros pri obrashchenii", "Admin (sozdal lida)">>

\* The validator main() builds for a sheet
Validator(kind, data) ==
    IF kind = "sales"
    THEN BaseValidator(data, sales_required_columns, "sid", "Prodazhi", 623132210)
    ELSE IF kind = "trainings"
    THEN BaseValidator(data, trainings_required_columns, "sid", "Trenirovki", 1856560934)
    ELSE BaseValidator(data, leads_required_columns, "sid", "Obrashcheniya", 0)

\* The sheet row of the i-th data row, as validate_row counts it
sheet_row_num(kind, i) == IF kind = "trainings" THEN i + 1 ELSE i + 2

\* Steps 3 of main(): the Sales sheet is validated when it is not empty.
validate_sales(data, now) ==
    /\ val_step < MaxValidate
    /\ Len(data) > 0
    /\ \E self \in {Validator("sales", data)} :
       LET n == Len(data) - 1
           raises == [i \in 1..n |-> sales_row_raises(self, data[i + 1])]
           raised == scans_rows(self) /\ \E i \in 1..n : raises[i]
       IN  /\ val_raised' = raised
           /\ val_errors' =
                 IF raised THEN <<>>
                 ELSE validate(self, [i \in 1..n |->
                                         sales_validate_row(self, i, data[i + 1], now)])
           /\ val_imported_raised' = raised
           /\ val_imported' = val_errors'
           /\ val_skipped' =
                 IF scans_rows(self)
                 THEN {i \in rows_before_raise(self, raises) :
                          sales_date_skipped(self, data[i + 1], now)}
                 ELSE {}
    /\ val_kind' = "sales"
    /\ val_data' = data
    /\ val_now' = now
    /\ val_step' = val_step + 1
    /\ UNCHANGED <<report_vars, uid_vars, api_vars, run_vars>>

\* Step 4 of main(): the Trainings sheet
validate_trainings(data, now) ==
    /\ val_step < MaxValidate
    /\ \E self \in {Validator("trainings", data)} :
       LET n == Len(data) - 1
           raises == [i \in 1..n |-> trainings_row_raises(self, data[i + 1], now)]
           raised == scans_rows(self) /\ \E i \in 1..n : raises[i]
       IN  /\ val_raised' = raised
           /\ val_errors' = IF raised THEN <<>> ELSE trainings_validate(self, now)
           /\ val_imported_raised' = raised
           /\ val_imported' = IF raised THEN <<>> ELSE validator_trainings_validate(self, now)
           /\ val_skipped' =
                 IF scans_rows(self)
                 THEN {i \in rows_before_raise(self, raises) :
                          trainings_date_skipped(self, data[i + 1], now)}
                 ELSE {}
    /\ val_kind' = "trainings"
    /\ val_data' = data
    /\ val_now' = now
    /\ val_step' = val_step + 1
    /\ UNCHANGED <<report_vars, uid_vars, api_vars, run_vars>>

\* Step 5 of main(): the Leads sheet
validate_leads(data, now) ==
    /\ val_step < MaxValidate
    /\ \E self \in {Validator("leads", data)} :
       LET n == Len(data) - 1
           raises == [i \in 1..n |-> leads_row_raises(self, data[i + 1])]
           raised == scans_rows(self) /\ \E i \in 1..n : raises[i]
       IN  /\ val_raised' = raised
           /\ val_errors' =
                 IF raised THEN <<>>
                 ELSE validate(self, [i \in 1..n |->
                                         leads_validate_row(self, i, data[i + 1], now)])
           /\ val_imported_raised' = FALSE
           /\ val_imported' =
                 validate(self, [i \in 1..n |->
                                    validator_leads_validate_row(self, i, data[i + 1])])
           /\ val_skipped' = {}
    /\ val_kind' = "leads"
    /\ val_data' = data
    /\ val_now' = now
    /\ val_step' = val_step + 1
    /\ UNCHANGED <<report_vars, uid_vars, api_vars, run_vars>>

(***************************************************************************)
(* The sheets the validators are run on.                                   *)
(***************************************************************************)
\* The run takes place on 01.01.2025, at midnight or at 18:00.
Today == SerialOf(2025, 1, 1)
Nows == {datetime(Today, 0), datetime(Today, 75)}

HeaderOf(columns) == [i \in 1..Len(columns) |-> S(columns[i])]
Without(header, column) == SelectSeq(header, LAMBDA c : c # S(column))

\* The row that holds vals[column] under every column of the header
RowOf(header, vals) ==
    [i \in 1..Len(header) |->
        IF header[i].v \in DOMAIN vals THEN vals[header[i].v] ELSE S("")]

\* The grids of a header and at most two of the rows
SheetsOf(header, rows) ==
    {<<header>>}
    \cup {<<header, RowOf(header, r)>> : r \in rows}
    \cup {<<header, RowOf(header, r[1]), RowOf(header, r[2])>> : r \in rows \X rows}

GoodSale ==
    ("Data" :> N((Today - 1) * Scale)) @@ ("Klient" :> S("Ivan")) @@ ("Produkt" :> S("Abonement"))
    @@ ("Tip" :> S("Bassein")) @@ ("Kategoriya" :> S("Deti")) @@ ("Kolichestvo" :> N(Scale))
    @@ ("Polnaya stoimost" :> N(1000 * Scale)) @@ ("Skidka" :> S("10%"))
    @@ ("Okonchatelnaya stoimost" :> N(900 * Scale)) @@ ("Nalichnye" :> N(900 * Scale))
    @@ ("Perevod" :> N(0)) @@ ("Terminal" :> N(0)) @@ ("Vdolg" :> N(0))
    @@ ("Admin" :> S("Anna")) @@ ("Trener" :> S("Oleg")) @@ ("Kommentarii" :> S(""))
    @@ ("Bonus admina" :> N(0)) @@ ("Bonus trenera" :> N(0))
    @@ ("Probili na evotore" :> B(TRUE)) @@ ("Vnesli v CRM" :> B(TRUE))

SalesRows ==
    { GoodSale,
      ("Data" :> N(Today * Scale)) @@ ("Kategoriya" :> S("")) @@ GoodSale,
      ("Data" :> N(Today * Scale + 50)) @@ ("Kategoriya" :> S("")) @@ GoodSale,
      ("Data" :> N((Today + 1) * Scale)) @@ ("Kategoriya" :> S("")) @@ GoodSale,
      ("Data" :> S("")) @@ ("Kategoriya" :> S("")) @@ GoodSale,
      ("Trener" :> S("Utochnit u Anny")) @@ ("Okonchatelnaya stoimost" :> N(950 * Scale))
          @@ GoodSale,
      ("Data" :> S("31.12.2024")) @@ ("Tip" :> S("Tovar")) @@ ("Produkt" :> S("Podarok"))
          @@ GoodSale }

\* Sales of yesterday that differ in the three cells of the price rule
PriceRows ==
    { ("Polnaya stoimost" :> f) @@ ("Skidka" :> d) @@ ("Okonchatelnaya stoimost" :> p)
          @@ GoodSale :
        f \in {N(1000 * Scale), S("1 000,50"), S("abc"), S("")},
        d \in {S("10%"), N(10), S("0,5"), S("skidka"), S("")},
        p \in {N(900 * Scale), N(899 * Scale), N(89899), S("1000"), S("")} }

\* Sales of yesterday that differ in the payment cells and the final price
PaymentRows ==
    { ("Nalichnye" :> c) @@ ("Perevod" :> t) @@ ("Terminal" :> m) @@ ("Vdolg" :> v)
          @@ ("Okonchatelnaya stoimost" :> p) @@ GoodSale :
        c \in {N(900 * Scale), S("899"), S("")},
        t \in {N(0), S("")},
        m \in {N(50), S("")},
        v \in {N(Scale), N(101), S("")},
        p \in {N(900 * Scale), N(0)} }

\* Sales of yesterday that differ in the type, the product, the two process
\* flags and the price
ProcessRows ==
    { ("Tip" :> t) @@ ("Produkt" :> pr) @@ ("Vnesli v CRM" :> crm)
          @@ ("Probili na evotore" :> evotor)
          @@ ("Okonchatelnaya stoimost" :> p) @@ ("Nalichnye" :> p) @@ GoodSale :
        t \in {S("Tovar"), S("Bassein"), S("Vozvrat dolga")},
        pr \in {S("Abonement"), S("Dolg za abonement")},
        crm \in {B(TRUE), B(FALSE), S("istina"), N(Scale)},
        evotor \in {B(TRUE), B(FALSE), S("True")},
        p \in {N(900 * Scale), N(0)} }

\* Sales of yesterday that differ in the product, the comment and the discount
CommentRows ==
    { ("Produkt" :> pr) @@ ("Kommentarii" :> c) @@ ("Skidka" :> d) @@ GoodSale :
        pr \in {S("Abonement"), S("Podarok na DR"), S("Vozvrat abonementa"),
                 S("Pereraschet"), S("pereraschyot za mai"), S("Sertifikat"),
                 S("Sertifikat v podarok")},
        c \in {S(""), S("povod"), N(0)},
        d \in {S("10%"), S("99%"), S("100%"), N(Scale), N(98)} }

\* The sale of the end-to-end scenario with a final price of 800
Sale800 == ("Okonchatelnaya stoimost" :> N(800 * Scale)) @@ GoodSale

ScenarioRows == {GoodSale, Sale800}

\* Rows of yesterday that differ in what makes a row a genuine sale; a
\* required cell of each asks for a clarification
FilterRows ==
    { ("Klient" :> c) @@ ("Produkt" :> pr) @@ ("Probili na evotore" :> evotor)
          @@ ("Vnesli v CRM" :> crm) @@ ("Trener" :> S("utochnit u Olega")) @@ GoodSale :
        c \in {S(""), S("Ivan")},
        pr \in {S(""), S("Abonement")},
        evotor \in {B(FALSE), B(TRUE), S("istina"), N(Scale), N(0), S("")},
        crm \in {B(FALSE), S("True"), N(Scale)} }

SaleVariants ==
    PriceRows \cup PaymentRows \cup ProcessRows \cup CommentRows \cup ScenarioRows
    \cup FilterRows

SalesHeader == HeaderOf(sales_required_columns)

\* The grids of the header and one of the variants
VariantSheets == {<<SalesHeader, RowOf(SalesHeader, r)>> : r \in SaleVariants}

SalesSheets ==
    SheetsOf(SalesHeader, SalesRows) \cup SheetsOf(Without(SalesHeader, "Skidka"), SalesRows)
    \cup VariantSheets

TrainingsHeader ==
    HeaderOf(trainings_required_columns \o
             <<"Klient", "Status", "Kategoriya", "Kommentarii", "Vsego poseshcheno",
               "Ostatok zanyatii">>)

Shift ==
    ("Data" :> S("31.12.2024")) @@ ("Nachalo" :> S("09:00")) @@ ("Konets" :> S("21:00"))
    @@ ("Sotrudnik" :> S("Anna")) @@ ("Tip" :> S("Administrator")) @@ ("Zamena?" :> S("Net"))
    @@ ("Klient" :> S("Administrator")) @@ ("Status" :> S("Administrator"))
    @@ ("Kategoriya" :> S("Onlain"))

GoodSession ==
    ("Data" :> S("31.12.2024")) @@ ("Nachalo" :> S("10:00")) @@ ("Konets" :> S("11:00"))
    @@ ("Sotrudnik" :> S("Oleg")) @@ ("Tip" :> S("Bassein")) @@ ("Zamena?" :> S("Net"))
    @@ ("Klient" :> S("Petrov")) @@ ("Status" :> S("Otrabotano"))
    @@ ("Vsego poseshcheno" :> S("1")) @@ ("Ostatok zanyatii" :> S("3"))

LastSession == ("Vsego poseshcheno" :> S("5")) @@ ("Ostatok zanyatii" :> S("0")) @@ GoodSession

TrainingsRows ==
    { Shift,
      GoodSession,
      LastSession,
      ("Data" :> S("sr 01.01")) @@ ("Status" :> S("Propusk")) @@ GoodSession,
      ("Data" :> S("02.01.2025")) @@ LastSession,
      ("Data" :> S("")) @@ GoodSession,
      ("Zamena?" :> N(Scale)) @@ GoodSession }

\* A session that was missed without a reason, and the shifts around it
MissedSession == ("Status" :> S("Propusk")) @@ GoodSession

DutyRows ==
    { MissedSession,
      ("Sotrudnik" :> S("Vera")) @@ ("Kategoriya" :> S("")) @@ Shift,
      ("Sotrudnik" :> S("Galina")) @@ ("Kategoriya" :> S("V tsentre (utro)")) @@ Shift,
      ("Sotrudnik" :> S("Boris")) @@ ("Kategoriya" :> S("Onlain")) @@ Shift,
      ("Sotrudnik" :> S("")) @@ Shift,
      ("Data" :> S("30.12.2024")) @@ ("Sotrudnik" :> S("Daria")) @@ Shift }

\* The grids of three of the rows
DutySheets ==
    { <<TrainingsHeader, RowOf(TrainingsHeader, r[1]), RowOf(TrainingsHeader, r[2]),
        RowOf(TrainingsHeader, r[3])>> : r \in DutyRows \X DutyRows \X DutyRows }

\* Sessions that differ in the client, the two counters and the comment
SubscriptionRows ==
    { LastSession,
      ("Kommentarii" :> S("prodlil")) @@ LastSession,
      ("Vsego poseshcheno" :> S("2")) @@ LastSession,
      ("Vsego poseshcheno" :> S("1")) @@ LastSession,
      ("Vsego poseshcheno" :> S("mnogo")) @@ LastSession,
      ("Vsego poseshcheno" :> S("")) @@ LastSession,
      ("Ostatok zanyatii" :> S("1")) @@ LastSession,
      ("Ostatok zanyatii" :> S("-")) @@ LastSession,
      ("Ostatok zanyatii" :> S("")) @@ LastSession,
      ("Klient" :> S("Sidorov")) @@ LastSession,
      ("Klient" :> S("")) @@ ("Sotrudnik" :> S("")) @@ LastSession,
      ("Vsego poseshcheno" :> S("5")) @@ ("Ostatok zanyatii" :> S("0")) @@ Shift }

\* Sessions that differ in the status and the date
StatusRows ==
    { ("Status" :> st) @@ ("Data" :> d) @@ GoodSession :
        st \in {S("Podtverdili"), S("Ne podtverdili"), S("Posetili"), S("Pereezd"), S("")},
        d \in {S("30.12.2024"), S("01.01.2025"), S("02.01.2025"), S("skoro")} }

\* The grids of one of the rows
StatusSheets == {<<TrainingsHeader, RowOf(TrainingsHeader, r)>> : r \in StatusRows}

TrainingsSheets ==
    {<<>>} \cup SheetsOf(TrainingsHeader, TrainingsRows)
    \cup SheetsOf(Without(TrainingsHeader, "Zamena?"), TrainingsRows)
    \cup DutySheets
    \cup SheetsOf(TrainingsHeader, SubscriptionRows)
    \cup StatusSheets

LeadsHeader ==
    HeaderOf(<<"Data obrashcheniya", "Mobilnyi", "Zapros pri obrashchenii",
               "Admin (sozdal lida)", "Familiya vzroslogo", "Imya vzroslogo", "Imya rebenka",
               "Data rozhdeniya rebenka", "Pol rebyonka", "Tip", "Admin (sozdal klienta)">>)

GoodLead ==
    ("Data obrashcheniya" :> S("31.12.2024")) @@ ("Mobilnyi" :> S("79001234567"))
    @@ ("Zapros pri obrashchenii" :> S("Bassein")) @@ ("Admin (sozdal lida)" :> S("Anna"))

LeadsRows ==
    { GoodLead,
      ("Zapros pri obrashchenii" :> S("")) @@ GoodLead,
      ("Admin (sozdal klienta)" :> S("Boris")) @@ ("Mobilnyi" :> S("8 900")) @@ GoodLead,
      ("Familiya vzroslogo" :> S("Petrova")) @@ ("Imya vzroslogo" :> S("Olga"))
          @@ ("Imya rebenka" :> S("Petya")) @@ ("Data rozhdeniya rebenka" :> S("01.02.2020"))
          @@ GoodLead }

\* Leads that differ in the two admins, the phone, the request and the
\* fields of the client
LeadVariants ==
    { ("Admin (sozdal lida)" :> la) @@ ("Admin (sozdal klienta)" :> ca)
          @@ ("Mobilnyi" :> ph) @@ ("Zapros pri obrashchenii" :> q)
          @@ ("Familiya vzroslogo" :> core[1]) @@ ("Imya vzroslogo" :> S("Olga"))
          @@ ("Imya rebenka" :> core[2]) @@ ("Data rozhdeniya rebenka" :> core[2])
          @@ ("Pol rebyonka" :> rest) @@ ("Tip" :> rest) @@ GoodLead :
        la \in {S("Anna"), S("")},
        ca \in {S("Boris"), S("")},
        ph \in {S("79001234567"), S("8 900 123-45-67"), S("")},
        q \in {S("Bassein"), S("")},
        core \in {<<S("Petrova"), S("01.02.2020")>>, <<S("Petrova"), S("")>>,
                   <<S(""), S("")>>},
        rest \in {S("M"), S("")} }

\* The rows under a header row that has no phone column
NoPhoneSheets ==
    {<<Without(LeadsHeader, "Mobilnyi"), RowOf(Without(LeadsHeader, "Mobilnyi"), r)>> :
        r \in LeadsRows}

LeadsSheets ==
    {<<>>} \cup SheetsOf(LeadsHeader, LeadsRows) \cup NoPhoneSheets
    \cup SheetsOf(Without(LeadsHeader, "Zapros pri obrashchenii"), LeadsRows)
    \cup {<<LeadsHeader, RowOf(LeadsHeader, r)>> : r \in LeadVariants}

NextValidate ==
    \E now \in Nows :
        \/ \E data \in SalesSheets : validate_sales(data, now)
        \/ \E data \in TrainingsSheets : validate_trainings(data, now)
        \/ \E data \in LeadsSheets : validate_leads(data, now)

SpecValidate == Init /\ [][NextValidate]_vars

\* The findings of the result that name the i-th data row
FindingsOfRow(i) ==
    SelectSeq(val_errors, LAMBDA e : e.row_number = sheet_row_num(val_kind, i))

\* C9 (as claimed): when a required column is absent from the header row,
\* validate() of each of the three validators returns exactly one finding,
\* with row_number = 0 and error_type = missing_column, and no finding
\* derived from a data row.
C9_MissingColumnOnly ==
    (val_step > 0 /\ Len(val_data) > 0
        /\ Len(missing_columns(Validator(val_kind, val_data))) > 0) =>
        /\ Len(val_errors) = 1
        /\ val_errors[1].row_number = 0
        /\ val_errors[1].error_type = "missing_column"

\* C10 (as claimed): on the Sales and Trainings sheets a data row whose date
\* cell is empty or whose calendar date is after today contributes no
\* finding to the result of validate(), and a row whose calendar date is
\* today or earlier is not skipped by the date filter, whatever its time of
\* day.
C10_DateFilter ==
    (val_step > 0 /\ val_kind \in {"sales", "trainings"} /\ ~val_raised) =>
        \A i \in 1..(Len(val_data) - 1) :
            LET date_cell == _get_val(Validator(val_kind, val_data), val_data[i + 1], "Data")
                dt == parse_date_value(date_cell, val_now)
            IN  /\ (date_cell = S("") \/ (dt # None /\ dt.days > val_now.days))
                       => Len(FindingsOfRow(i)) = 0
                /\ (dt # None /\ dt.days <= val_now.days) => i \notin val_skipped

\* The validator of the sheet of the last validation
val_self == Validator(val_kind, val_data)

\* The Sales sheet was validated and its rows were scanned
SalesScanned == val_step > 0 /\ val_kind = "sales" /\ ~val_raised /\ scans_rows(val_self)

\* The i-th data row of the Sales sheet passes the date filter and the
\* genuine-sale filter
SaleChecked(i) ==
    /\ ~sales_date_skipped(val_self, val_data[i + 1], val_now)
    /\ should_validate(val_self, val_data[i + 1])

\* The findings of a type for the i-th data row
FindingsOfType(i, type) == SelectSeq(FindingsOfRow(i), LAMBDA e : e.error_type = type)

\* The cell of a column in the i-th data row
CellOf(i, col) == _get_val(val_self, val_data[i + 1], col)

\* |fullPrice * (1 - discountRate) - finalPrice| > 1.0 for the i-th data row,
\* in millionths
PriceOff(i) ==
    LET d == parse_float(CellOf(i, "Polnaya stoimost"))
                 * (RateScale - parse_discount(CellOf(i, "Skidka")))
             - parse_float(CellOf(i, "Okonchatelnaya stoimost")) * RateScale
    IN  d > Scale * RateScale \/ d < 0 - Scale * RateScale

C11_WitnessBoundary ==
    /\ SalesScanned /\ Len(val_data) = 2 /\ SaleChecked(1)
    /\ CellOf(1, "Polnaya stoimost") = N(1000 * Scale)
    /\ CellOf(1, "Skidka") = S("10%")
    /\ CellOf(1, "Okonchatelnaya stoimost") = N(899 * Scale)
    /\ Len(FindingsOfType(1, "math_error")) = 0

\* |cash + transfer + terminal + debt - finalPrice| > 1.0 for the i-th data
\* row, in hundredths
PaymentOff(i) ==
    LET d == parse_float(CellOf(i, "Nalichnye")) + parse_float(CellOf(i, "Perevod"))
             + parse_float(CellOf(i, "Terminal")) + parse_float(CellOf(i, "Vdolg"))
             - parse_float(CellOf(i, "Okonchatelnaya stoimost"))
    IN  d > Scale \/ d < 0 - Scale

FlagTrue(cell) ==
    \/ cell = B(TRUE)
    \/ cell = N(Scale)
    \/ (cell.t = "str" /\ Upper(cell.v) \in {"TRUE", "ISTINA"})

\* Whether the i-th data row has a process_error finding on the column
HasProcessError(i, col) ==
    \E k \in 1..Len(FindingsOfType(i, "process_error")) :
        FindingsOfType(i, "process_error")[k].column = col

\* C13 (as claimed): on a validated Sales row of type "Tovar" a process_error
\* on "Vnesli v CRM" is emitted if and only if the entered-into-CRM flag is
\* true, and none on "Probili na evotore"; on a row of another type a
\* process_error on "Vnesli v CRM" is emitted if finalPrice > 0 and the CRM
\* flag is false, and a process_error on "Probili na evotore" is emitted
\* whenever the rung-at-register flag is false and neither the type nor the
\* product name contains "dolg".
C13_ProcessRule ==
    SalesScanned =>
        \A i \in 1..(Len(val_data) - 1) :
            SaleChecked(i) =>
                LET type == Fmt(CellOf(i, "Tip"))
                    crm == FlagTrue(CellOf(i, "Vnesli v CRM"))
                    evotor == FlagTrue(CellOf(i, "Probili na evotore"))
                    debt == \/ Contains(Lower(type), "dolg")
                            \/ Contains(Lower(Fmt(CellOf(i, "Produkt"))), "dolg")
                IN  IF type = "Tovar"
                    THEN /\ HasProcessError(i, "Vnesli v CRM") <=> crm
                         /\ ~HasProcessError(i, "Probili na evotore")
                    ELSE /\ (parse_float(CellOf(i, "Okonchatelnaya stoimost")) > 0 /\ ~crm)
                                => HasProcessError(i, "Vnesli v CRM")
                         /\ (~evotor /\ ~debt) => HasProcessError(i, "Probili na evotore")

\* The product name of the i-th data row contains one of the keywords of a
\* special product
NamesSpecialProduct(i) ==
    \E w \in {"podarok", "vozvrat abonementa", "pereraschyot", "pereraschet", "sertifikat"} :
        Contains(Lower(Fmt(CellOf(i, "Produkt"))), w)

\* The empty findings on the comment column for the i-th data row
CommentFindings(i) ==
    SelectSeq(FindingsOfType(i, "empty"), LAMBDA e : e.column = "Kommentarii")

\* C14: a validated Sales row has at most one empty finding on "Kommentarii";
\* it has one exactly when the comment is empty and either the product name
\* contains a special-product keyword, or none matches and the discount rate
\* is at least 0.99; when a keyword matches, the finding of the 100%
\* discount check is never emitted.
C14_CommentRule ==
    SalesScanned =>
        \A i \in 1..(Len(val_data) - 1) :
            SaleChecked(i) =>
                LET needed ==
                        /\ CellOf(i, "Kommentarii") = S("")
                        /\ \/ NamesSpecialProduct(i)
                           \/ parse_discount(CellOf(i, "Skidka")) * 100 >= 99 * RateScale
                IN  /\ Len(CommentFindings(i)) = (IF needed THEN 1 ELSE 0)
                    /\ NamesSpecialProduct(i) =>
                           \A k \in 1..Len(CommentFindings(i)) :
                               CommentFindings(i)[k].description
                                   # "Pri skidke 100% obyazatelen kommentarii"

\* A certificate sold at a 100% discount without a comment has the one
\* finding of the special product
C14_Witness ==
    /\ SalesScanned /\ Len(val_data) = 2 /\ SaleChecked(1)
    /\ CellOf(1, "Produkt") = S("Sertifikat v podarok")
    /\ CellOf(1, "Skidka") = S("100%")
    /\ CellOf(1, "Kommentarii") = S("")
    /\ Len(CommentFindings(1)) = 1
    /\ CommentFindings(1)[1].description = "Utochnit povod dlya podarka zanyatiya"

\* A special product with a comment at a 100% discount has no finding
C14_WitnessCommented ==
    /\ SalesScanned /\ Len(val_data) = 2 /\ SaleChecked(1)
    /\ CellOf(1, "Produkt") = S("Vozvrat abonementa")
    /\ CellOf(1, "Skidka") = S("100%")
    /\ CellOf(1, "Kommentarii") = S("povod")
    /\ Len(CommentFindings(1)) = 0

\* C15 (as claimed): the past-dated row with fullPrice = 1000, discount "10%",
\* cash = 900, no other payment, both process flags true, every required
\* field filled and no comment has no finding when finalPrice = 900, and
\* exactly one finding, a math_error on "Okonchatelnaya stoimost", when only
\* finalPrice is changed to 800.
C15_EndToEnd ==
    SalesScanned =>
        \A i \in 1..(Len(val_data) - 1) :
            /\ val_data[i + 1] = RowOf(SalesHeader, GoodSale) => Len(FindingsOfRow(i)) = 0
            /\ val_data[i + 1] = RowOf(SalesHeader, Sale800) =>
                   /\ Len(FindingsOfRow(i)) = 1
                   /\ FindingsOfRow(i)[1].error_type = "math_error"
                   /\ FindingsOfRow(i)[1].column = "Okonchatelnaya stoimost"

\* C15 (amended): the row has no finding when finalPrice = 900, and exactly
\* two findings when only finalPrice is changed to 800: a math_error and a
\* payment_error, both on "Okonchatelnaya stoimost".
C15_EndToEndAmended ==
    SalesScanned =>
        \A i \in 1..(Len(val_data) - 1) :
            /\ val_data[i + 1] = RowOf(SalesHeader, GoodSale) => Len(FindingsOfRow(i)) = 0
            /\ val_data[i + 1] = RowOf(SalesHeader, Sale800) =>
                   /\ Len(FindingsOfRow(i)) = 2
                   /\ FindingsOfRow(i)[1].error_type = "math_error"
                   /\ FindingsOfRow(i)[2].error_type = "payment_error"
                   /\ \A k \in 1..2 : FindingsOfRow(i)[k].column = "Okonchatelnaya stoimost"

\* The row with a final price of 800 was validated and has its two findings
C15_Witness ==
    /\ SalesScanned
    /\ val_data = <<SalesHeader, RowOf(SalesHeader, Sale800)>>
    /\ Len(val_errors) = 2

\* Whether the i-th data row has an empty finding on the column
HasEmptyFinding(i, col) ==
    \E k \in 1..Len(FindingsOfType(i, "empty")) : FindingsOfType(i, "empty")[k].column = col

\* C16 (as claimed): a Sales row with an empty client name, an empty product
\* name and neither process flag true has no finding at all (not even
\* clarify_needed); a row with a client or product name, or with either flag
\* true (a boolean true, a numeric code for true, or the text TRUE / ISTINA in
\* any case) is validated, so its empty client or product cell is reported.
C16_GenuineSaleFilter ==
    SalesScanned =>
        \A i \in 1..(Len(val_data) - 1) :
            ~sales_date_skipped(val_self, val_data[i + 1], val_now) =>
                LET has_client == CellOf(i, "Klient") # S("")
                    has_product == CellOf(i, "Produkt") # S("")
                    flagged == \/ FlagTrue(CellOf(i, "Probili na evotore"))
                               \/ FlagTrue(CellOf(i, "Vnesli v CRM"))
                IN  IF ~has_client /\ ~has_product /\ ~flagged
                    THEN Len(FindingsOfRow(i)) = 0
                    ELSE /\ ~has_client => HasEmptyFinding(i, "Klient")
                         /\ ~has_product => HasEmptyFinding(i, "Produkt")

\* The Trainings sheet was validated
TrainingsValidated == val_step > 0 /\ val_kind = "trainings" /\ ~val_raised

\* The data rows that are shifts of an admin on the date of the i-th data row
ShiftsOn(i) ==
    { j \in 1..(Len(val_data) - 1) :
        /\ CellOf(i, "Data") # S("")
        /\ CellOf(j, "Data") = CellOf(i, "Data")
        /\ CellOf(j, "Tip") = S("Administrator")
        /\ CellOf(j, "Klient") = S("Administrator")
        /\ CellOf(j, "Sotrudnik") # S("") }

\* The smallest element of a non-empty set of numbers
Lowest(js) == CHOOSE j \in js : \A k \in js : j <= k

\* The admin on duty for the i-th data row: of the shifts of its date the
\* first "Onlain" one, else the first "V tsentre" one, else the first
AdminOnDuty(i) ==
    LET online == {j \in ShiftsOn(i) : Contains(Fmt(CellOf(j, "Kategoriya")), "Onlain")}
        centre == {j \in ShiftsOn(i) : Contains(Fmt(CellOf(j, "Kategoriya")), "V tsentre")}
    IN  IF ShiftsOn(i) = {} THEN "Utochnit"
        ELSE IF online # {} THEN Fmt(CellOf(Lowest(online), "Sotrudnik"))
        ELSE IF centre # {} THEN Fmt(CellOf(Lowest(centre), "Sotrudnik"))
        ELSE Fmt(CellOf(Lowest(ShiftsOn(i)), "Sotrudnik"))

SubscriptionFindings(i) ==
    SelectSeq(FindingsOfRow(i), LAMBDA e :
        e.description
            = "Trebuetsya kommentarii ob otvete klienta na predlozhenie prodlit abonement")

\* A counter cell that holds a whole number; an empty cell counts as 0
IsCount(cell) == cell = S("") \/ (cell.t = "str" /\ IsSignedInt(cell.v))
CountOf(cell) == IF cell = S("") THEN 0 ELSE SignedIntOf(cell.v)

\* The i-th data row is the last row of a client other than "Administrator",
\* with more than one visit, no remaining session and no comment
SubscriptionDue(i) ==
    /\ Fmt(CellOf(i, "Klient")) \notin {"", "Administrator"}
    /\ \A j \in (i + 1)..(Len(val_data) - 1) : CellOf(j, "Klient") # CellOf(i, "Klient")
    /\ IsCount(CellOf(i, "Vsego poseshcheno")) /\ IsCount(CellOf(i, "Ostatok zanyatii"))
    /\ CountOf(CellOf(i, "Vsego poseshcheno")) > 1
    /\ CountOf(CellOf(i, "Ostatok zanyatii")) = 0
    /\ CellOf(i, "Kommentarii") = S("")

StatusFindings(i) ==
    SelectSeq(FindingsOfType(i, "invalid_value"), LAMBDA e : e.column = "Status")

\* C19: a Trainings row that is not skipped and has a status has an
\* invalid_value finding on "Status" if and only if the status is
\* "Podtverdili" or "Ne podtverdili" and the date of the row is before today,
\* or the status is neither of the two and is not in the allow-list; a
\* confirmation status on today's date has no status finding.
C19_StatusRule ==
    (TrainingsValidated /\ scans_rows(val_self)) =>
        \A i \in 1..(Len(val_data) - 1) :
            (/\ ~trainings_date_skipped(val_self, val_data[i + 1], val_now)
             /\ ~is_empty_day(val_self, val_data[i + 1])
             /\ CellOf(i, "Status") # S("")) =>
                LET status == Fmt(CellOf(i, "Status"))
                    dt == parse_date_value(CellOf(i, "Data"), val_now)
                    confirmation == status \in {"Podtverdili", "Ne podtverdili"}
                    invalid ==
                        \/ confirmation /\ dt # None /\ dt.days < val_now.days
                        \/ ~confirmation /\ status \notin VALID_STATUSES
                IN  Len(StatusFindings(i)) = (IF invalid THEN 1 ELSE 0)

\* "Ne podtverdili" has a finding on a past date and none on today's date
C19_Witness ==
    /\ TrainingsValidated /\ Len(val_data) = 2
    /\ CellOf(1, "Status") = S("Ne podtverdili")
    /\ CellOf(1, "Data") = S("30.12.2024")
    /\ Len(StatusFindings(1)) = 1

C19_WitnessToday ==
    /\ TrainingsValidated /\ Len(val_data) = 2
    /\ CellOf(1, "Status") = S("Ne podtverdili")
    /\ CellOf(1, "Data") = S("01.01.2025")
    /\ ~trainings_date_skipped(val_self, val_data[2], val_now)
    /\ Len(StatusFindings(1)) = 0

\* The Leads sheet was validated and its rows were scanned
LeadsScanned == val_step > 0 /\ val_kind = "leads" /\ ~val_raised /\ scans_rows(val_self)

\* The admin named by a cell, "Utochnit" when the cell is empty
AdminOf(cell) == IF cell = S("") THEN "Utochnit" ELSE Fmt(cell)

\* The columns among cols that are empty in the i-th data row
EmptyAmong(i, cols) == {col \in cols : CellOf(i, col) = S("")}

\* The findings C20 names for the i-th data row, as <<column, type, admin>>
LeadFindings(i) ==
    LET lead_admin == AdminOf(CellOf(i, "Admin (sozdal lida)"))
        client_cell == CellOf(i, "Admin (sozdal klienta)")
        phone(admin) ==
            IF validate_phone_format(CellOf(i, "Mobilnyi")) THEN {}
            ELSE {<<"Mobilnyi", "invalid_format", admin>>}
    IN  {<<col, "empty", lead_admin>> :
            col \in EmptyAmong(i, {leads_required_columns[k] :
                                       k \in 1..Len(leads_required_columns)})}
        \cup
        (IF client_cell # S("")
         THEN {<<col, "empty", AdminOf(client_cell)>> :
                  col \in EmptyAmong(i, {"Familiya vzroslogo", "Imya vzroslogo",
                                          "Imya rebenka", "Data rozhdeniya rebenka",
                                          "Pol rebyonka", "Tip"})}
              \cup phone(AdminOf(client_cell))
         ELSE IF EmptyAmong(i, {"Familiya vzroslogo", "Imya vzroslogo", "Imya rebenka",
                                "Data rozhdeniya rebenka"}) = {}
         THEN {<<"Admin (sozdal klienta)", "empty", "Utochnit">>} \cup phone("Utochnit")
         ELSE {})

\* C20: on the Leads sheet every finding for an empty required column carries
\* the lead admin ("Utochnit" when the lead-admin cell is empty); when the
\* client-admin cell is filled, each empty one of the six client fields and
\* an invalid phone give a finding that carries the client admin; when it
\* is empty and the four core fields are filled, the finding on
\* "Admin (sozdal klienta)" and the phone finding carry "Utochnit"; no other
\* finding is emitted.
C20_LeadAdmins ==
    LeadsScanned =>
        \A i \in 1..(Len(val_data) - 1) :
            /\ { <<FindingsOfRow(i)[k].column, FindingsOfRow(i)[k].error_type,
                    FindingsOfRow(i)[k].admin>> : k \in 1..Len(FindingsOfRow(i)) }
                   = LeadFindings(i)
            /\ Len(FindingsOfRow(i)) = Cardinality(LeadFindings(i))

\* A lead without a request whose client was created with a wrong phone and
\* without a type: the one finding names the lead admin, the others the
\* client admin
C20_Witness ==
    /\ LeadsScanned /\ Len(val_data) = 2
    /\ CellOf(1, "Admin (sozdal lida)") = S("Anna")
    /\ CellOf(1, "Admin (sozdal klienta)") = S("Boris")
    /\ \E k \in 1..Len(val_errors) :
           val_errors[k].column = "Zapros pri obrashchenii" /\ val_errors[k].admin = "Anna"
    /\ \E k \in 1..Len(val_errors) :
           val_errors[k].column = "Tip" /\ val_errors[k].admin = "Boris"
    /\ \E k \in 1..Len(val_errors) :
           val_errors[k].column = "Mobilnyi" /\ val_errors[k].admin = "Boris"

(***************************************************************************)
(* The two client rules of the Leads sheet.                                *)
(***************************************************************************)
\* Rule 1 emitted for the i-th data row: a finding that a client field is
\* required at the creation of the client, or a phone finding that is not
\* the one of rule 2
ClientRuleFired(i) ==
    \/ \E k \in 1..Len(FindingsOfRow(i)) :
           Contains(FindingsOfRow(i)[k].description, "obyazatelno pri sozdanii klienta")
    \/ Len(SelectSeq(FindingsOfRow(i), LAMBDA e : e.column = "Mobilnyi"))
           > (IF \E k \in 1..Len(FindingsOfRow(i)) :
                     FindingsOfRow(i)[k].column = "Admin (sozdal klienta)"
              THEN 1 ELSE 0)
       /\ CellOf(i, "Admin (sozdal klienta)") # S("")
    \/ Len(SelectSeq(FindingsOfRow(i), LAMBDA e : e.column = "Mobilnyi")) > 1

\* Rule 2 emitted for the i-th data row: the finding that asks for the
\* client admin
ClientAdminRuleFired(i) ==
    \E k \in 1..Len(FindingsOfRow(i)) :
        /\ FindingsOfRow(i)[k].column = "Admin (sozdal klienta)"
        /\ Contains(FindingsOfRow(i)[k].description, "obyazatelen esli zapolneny dannye klienta")

\* The findings of LeadsValidator.validate() for a sheet of one lead
LeadFindingsOf(lead, now) ==
    Let(Validator("leads", <<LeadsHeader, RowOf(LeadsHeader, lead)>>), LAMBDA self :
        validate(self, <<leads_validate_row(self, 1, self.data[2], now)>>))

\* C21 (as stated): the two client rules of the Leads sheet are not mutually
\* exclusive: among the leads there is one row for which the rule "client
\* admin filled" and the rule "core fields filled, client admin empty" both
\* emit findings.
C21_BothRulesFire ==
    val_step = 0 =>
        \E lead \in LeadVariants \cup LeadsRows, now \in Nows :
            LET found == LeadFindingsOf(lead, now) IN
            /\ \E k \in 1..Len(found) :
                   \/ Contains(found[k].description, "obyazatelno pri sozdanii klienta")
                   \/ found[k].column = "Mobilnyi" /\ found[k].admin # "Utochnit"
            /\ \E k \in 1..Len(found) : found[k].column = "Admin (sozdal klienta)"

\* C21 (amended): the two client rules of the Leads sheet exclude each
\* other: rule 1 emits only for a row whose client-admin cell is filled,
\* rule 2 only for a row whose client-admin cell is empty, so no row gets
\* findings of both and no row gets two phone findings.
C21_RulesExclusive ==
    LeadsScanned =>
        \A i \in 1..(Len(val_data) - 1) :
            /\ ClientRuleFired(i) => CellOf(i, "Admin (sozdal klienta)") # S("")
            /\ ClientAdminRuleFired(i) => CellOf(i, "Admin (sozdal klienta)") = S("")
            /\ ~(ClientRuleFired(i) /\ ClientAdminRuleFired(i))
            /\ Len(SelectSeq(FindingsOfRow(i), LAMBDA e : e.column = "Mobilnyi")) <= 1

\* A lead with the four core fields, a wrong phone and no client admin:
\* rule 2 asks for the admin and re-checks the phone, rule 1 is silent
C21_Witness ==
    /\ LeadsScanned /\ Len(val_data) = 2
    /\ CellOf(1, "Admin (sozdal klienta)") = S("")
    /\ CellOf(1, "Mobilnyi") = S("8 900 123-45-67")
    /\ CellOf(1, "Tip") = S("")
    /\ ClientAdminRuleFired(1)
    /\ ~ClientRuleFired(1)
    /\ \E k \in 1..Len(val_errors) :
           val_errors[k].column = "Mobilnyi" /\ val_errors[k].admin = "Utochnit"

\* The same lead with the client admin filled: rule 1 emits and rule 2 is
\* silent
C21_WitnessClientAdmin ==
    /\ LeadsScanned /\ Len(val_data) = 2
    /\ CellOf(1, "Admin (sozdal klienta)") = S("Boris")
    /\ CellOf(1, "Familiya vzroslogo") # S("") /\ CellOf(1, "Data rozhdeniya rebenka") # S("")
    /\ CellOf(1, "Tip") = S("")
    /\ ClientRuleFired(1)
    /\ ~ClientAdminRuleFired(1)

(***************************************************************************)
(* sheets_client.py: retry_api_call and the calls of SheetsClient it       *)
(* wraps.  Delays are counted in hundredths of a second.                   *)
(***************************************************************************)
max_retries == 5
initial_delay == 100
backoff_factor == 2
\* The upper end of random.uniform(0, 0.5)
MaxJitter == 50

\* An HttpError with its e.resp.status, raised by the request uri
HttpError(status, uri) == [t |-> "HttpError", status |-> status, uri |-> uri]
\* An Exception that is no HttpError (a socket timeout)
TimeoutError(uri) == [t |-> "TimeoutError", status |-> 0, uri |-> uri]

\* The failures a request can raise
Failures(uri) ==
    {HttpError(st, uri) : st \in {500, 502, 503, 504, 404}} \cup {TimeoutError(uri)}

\* The values random.uniform(0, 0.5) is drawn from
Jitters == {0, MaxJitter}

\* The grids main() hands to write_report (and the empty list)
ReportGrids ==
    { <<>>,
      <<HEADERS>>,
      <<HEADERS,
        <<S("u1"), S("FALSE"), S("01.01.2025"), S("Prodazhi"), S("Klient"), S("Anna"),
          S("d1"), S("")>>>> }

\* result.get('values', []), the return value of read_data
Values(grid) == [t |-> "list", v |-> grid]

\* The status codes of the first except branch
retried_statuses == {500, 502, 503, 504}

\* Whether the wrapper goes on after the failure e when attempts are left:
\* an HttpError of a listed status, and every other Exception
is_retried(e) == IF e.t = "HttpError" THEN e.status \in retried_statuses ELSE TRUE

\* The delay that is not multiplied
next_delay_fixed(d) == d

\* delay *= backoff_factor
next_delay(d) == d * backoff_factor

\* A clear that leaves the range as it is
values_clear_skipped(grid) == grid

\* spreadsheets().values().clear(range=sheet_name)
values_clear(grid) == <<>>

\* spreadsheets().values().update(range=sheet_name, body={'values': rows})
\* on a cleared range
values_update(grid, rows) == rows

\* wrapper(*args, **kwargs): the locals before the loop
wrapper(func, rows) ==
    /\ api_pc = "idle"
    /\ api_func' = func
    /\ api_rows' = rows
    /\ delay' = initial_delay
    /\ last_exception' = None
    /\ attempt' = 0
    /\ api_pc' = "try"
    /\ UNCHANGED <<dest, calls, slept, api_result, api_raised, report_vars, uid_vars, val_vars,
                   run_vars>>

\* The except branches of the wrapper for the failure e of this attempt:
\* re-raise, or sleep delay + jitter, multiply the delay and loop
wrapper_except(e, jitter) ==
    /\ last_exception' = e
    /\ IF is_retried(e) /\ attempt # max_retries
       THEN /\ slept' = Append(slept, <<delay, delay + jitter>>)
            /\ delay' = next_delay(delay)
            /\ attempt' = attempt + 1
            /\ api_pc' = "try"
            /\ UNCHANGED api_raised
       ELSE /\ api_raised' = e
            /\ api_pc' = "raised"
            /\ UNCHANGED <<slept, delay, attempt>>

\* read_data: the request succeeds and the values are returned
read_data ==
    /\ api_pc = "try" /\ api_func = "read_data" /\ attempt <= max_retries
    /\ calls' = calls + 1
    /\ api_result' = Values(dest)
    /\ api_pc' = "returned"
    /\ UNCHANGED <<api_func, api_rows, dest, attempt, delay, slept, last_exception, api_raised,
                   report_vars, uid_vars, val_vars,
                   run_vars>>

\* read_data: the request raises
read_data_raises(e, jitter) ==
    /\ api_pc = "try" /\ api_func = "read_data" /\ attempt <= max_retries
    /\ calls' = calls + 1
    /\ wrapper_except(e, jitter)
    /\ UNCHANGED <<api_func, api_rows, dest, api_result, report_vars, uid_vars, val_vars,
                   run_vars>>

\* write_report: the clear succeeds; an empty rows returns at once
write_report_clear ==
    /\ api_pc = "try" /\ api_func = "write_report" /\ attempt <= max_retries
    /\ calls' = calls + 1
    /\ dest' = values_clear(dest)
    /\ api_pc' = IF api_rows = <<>> THEN "returned" ELSE "cleared"
    /\ UNCHANGED <<api_func, api_rows, attempt, delay, slept, last_exception, api_result,
                   api_raised, report_vars, uid_vars, val_vars,
                   run_vars>>

\* write_report: the clear raises
write_report_clear_raises(e, jitter) ==
    /\ api_pc = "try" /\ api_func = "write_report" /\ attempt <= max_retries
    /\ calls' = calls + 1
    /\ wrapper_except(e, jitter)
    /\ UNCHANGED <<api_func, api_rows, dest, api_result, report_vars, uid_vars, val_vars,
                   run_vars>>

\* write_report: the update succeeds
write_report_update ==
    /\ api_pc = "cleared"
    /\ dest' = values_update(dest, api_rows)
    /\ api_pc' = "returned"
    /\ UNCHANGED <<api_func, api_rows, attempt, delay, calls, slept, last_exception,
                   api_result, api_raised, report_vars, uid_vars, val_vars,
                   run_vars>>

\* write_report: the update raises
write_report_update_raises(e, jitter) ==
    /\ api_pc = "cleared"
    /\ wrapper_except(e, jitter)
    /\ UNCHANGED <<api_func, api_rows, dest, calls, api_result, report_vars, uid_vars, val_vars,
                   run_vars>>

NextRetry ==
    \/ wrapper("read_data", <<>>)
    \/ \E rows \in ReportGrids : wrapper("write_report", rows)
    \/ read_data
    \/ \E e \in Failures("get"), jitter \in Jitters : read_data_raises(e, jitter)
    \/ write_report_clear
    \/ \E e \in Failures("clear"), jitter \in Jitters : write_report_clear_raises(e, jitter)
    \/ write_report_update
    \/ \E e \in Failures("update"), jitter \in Jitters : write_report_update_raises(e, jitter)

\* The call runs in one thread and every request ends (the HTTP client has
\* a timeout), so the wrapper always takes its next step.
SpecRetry == Init /\ [][NextRetry]_vars /\ WF_vars(NextRetry)

(***************************************************************************)
(* Properties of the retried calls.                                        *)
(***************************************************************************)
\* The wrapper has returned or raised
CallEnded == api_pc \in {"returned", "raised"}

\* C23: a call wrapped by retry_api_call terminates: func is attempted at
\* most max_retries + 1 times; the wrapper returns the result of the first
\* successful attempt and makes no further attempt; the base delay before
\* each successive retry is double the previous one, starting from
\* initial_delay, and the sleep adds a jitter of at most 0.5 s; when every
\* attempt fails, the failure of the last attempt is raised to the caller.
C23_RetryTerminates ==
    /\ [](/\ calls <= max_retries + 1
          /\ Len(slept) <= max_retries
          /\ \A k \in 1..Len(slept) :
                 /\ slept[k][1] = (IF k = 1 THEN initial_delay ELSE 2 * slept[k - 1][1])
                 /\ slept[k][2] >= slept[k][1]
                 /\ slept[k][2] <= slept[k][1] + MaxJitter
          /\ CallEnded => calls = Len(slept) + 1
          /\ api_pc = "returned" =>
                 /\ api_raised = None
                 /\ api_func = "read_data" => api_result = [t |-> "list", v |-> dest]
          /\ api_pc = "raised" =>
                 /\ api_raised = last_exception
                 /\ api_raised \in Failures("get") \cup Failures("clear") \cup Failures("update")
          /\ (api_pc = "raised" /\ calls <= max_retries) =>
                 api_raised.t = "HttpError" /\ api_raised.status = 404)
    /\ [][~CallEnded]_vars
    /\ (api_pc = "try" ~> CallEnded)

\* Every attempt failed with status 503: six calls, five sleeps of base
\* delays 1, 2, 4, 8 and 16 s, and the last failure raised
C23_Witness ==
    /\ api_pc = "raised"
    /\ calls = max_retries + 1
    /\ Len(slept) = max_retries
    /\ slept[max_retries][1] = 1600
    /\ api_raised = HttpError(503, "get")

\* The third attempt succeeded: three calls, two sleeps, the values returned
C23_WitnessReturned ==
    /\ api_pc = "returned"
    /\ api_func = "read_data"
    /\ calls = 3
    /\ Len(slept) = 2
    /\ slept[2][2] = 250
    /\ api_result = [t |-> "list", v |-> PreviousReport]

\* C24: retry_api_call retries a failed attempt only when the failure is an
\* HttpError of status 500, 502, 503 or 504: whenever the wrapper is about
\* to call func again, the failure it caught last is of that class; a
\* failure of any other class is raised at its first occurrence.
C24_RetryOnlyTransient ==
    /\ (api_pc = "try" /\ last_exception # None) =>
           /\ last_exception.t = "HttpError"
           /\ last_exception.status \in {500, 502, 503, 504}
    /\ (api_pc = "raised" /\ ~(api_raised.t = "HttpError"
                               /\ api_raised.status \in {500, 502, 503, 504})) =>
           calls = 1

\* The grid the sheet held before the call
WasReport(grid) == grid = PreviousReport

\* C25: write_report clears the destination and then writes, and the two
\* requests are not atomic: when it returns normally with a non-empty grid
\* the destination holds exactly that grid (an empty grid leaves it empty);
\* when the write request fails and the failure is raised, the destination
\* is left empty and the previous report is not restored; every attempt
\* clears before it writes, so the write always lands on an empty
\* destination; a clear that fails leaves the destination as it was.
C25_ClearThenWrite ==
    /\ []((api_func = "write_report") =>
            /\ api_pc = "returned" => dest = api_rows
            /\ api_pc = "cleared" => dest = <<>> /\ api_rows # <<>>
            /\ (api_pc = "raised" /\ api_raised.uri = "update") =>
                   dest = <<>> /\ ~WasReport(dest)
            /\ (api_pc = "raised" /\ api_raised.uri = "clear" /\ calls = 1) => WasReport(dest)
            /\ dest \in {PreviousReport, <<>>, api_rows})
    /\ [][(api_func = "write_report" /\ dest' # dest /\ dest' # <<>>) =>
              (api_pc = "cleared" /\ dest = <<>> /\ dest' = api_rows)]_vars
    /\ [][(api_pc' = "cleared") => (api_pc = "try" /\ calls' = calls + 1 /\ dest' = <<>>)]_vars

\* The write failed on each of the six attempts, each after a clear that
\* succeeded: the failure is raised and the report sheet is empty
C25_Witness ==
    /\ api_func = "write_report"
    /\ api_pc = "raised"
    /\ api_raised = HttpError(503, "update")
    /\ calls = max_retries + 1
    /\ Len(api_rows) = 2
    /\ dest = <<>>

\* The write succeeded at the second attempt: the sheet holds the grid
C25_WitnessWritten ==
    /\ api_func = "write_report"
    /\ api_pc = "returned"
    /\ calls = 2
    /\ last_exception = TimeoutError("update")
    /\ Len(api_rows) = 2
    /\ dest = api_rows

(***************************************************************************)
(* The validators main() imports against the validators package.           *)
(***************************************************************************)
\* C30: the validators of module validator, which the runner imports, are
\* equivalent to the validators of package validators: on every sheet both
\* raise or both return, and they return the same number of findings, the
\* k-th with the same uid, admin and description (so the same date-based
\* admin on duty and the same treatment of the confirmation statuses).
C30_ImportedEquivalent ==
    val_step > 0 =>
        /\ val_imported_raised = val_raised
        /\ Len(val_imported) = Len(val_errors)
        /\ \A k \in 1..Len(val_errors) :
               k <= Len(val_imported) =>
                   /\ uid(val_imported[k]) = uid(val_errors[k])
                   /\ val_imported[k].admin = val_errors[k].admin
                   /\ val_imported[k].description = val_errors[k].description

(***************************************************************************)
(* runner.py: main(), one step per sheet and the update of the report.     *)
(***************************************************************************)
\* The sheets main() reads, by validator: one without a finding, one with
\* a finding and, for the trainings, one on which validate() raises
RunSheets(kind) ==
    IF kind = "sales"
    THEN { <<SalesHeader, RowOf(SalesHeader, GoodSale)>>,
           <<SalesHeader, RowOf(SalesHeader, ("Kategoriya" :> S("")) @@ GoodSale)>> }
    ELSE IF kind = "trainings"
    THEN { <<TrainingsHeader, RowOf(TrainingsHeader, GoodSession)>>,
           <<TrainingsHeader, RowOf(TrainingsHeader, MissedSession)>>,
           <<TrainingsHeader, RowOf(TrainingsHeader, ("Zamena?" :> N(Scale)) @@ GoodSession)>> }
    ELSE { <<LeadsHeader, RowOf(LeadsHeader, GoodLead)>>,
           <<LeadsHeader,
             RowOf(LeadsHeader, ("Zapros pri obrashchenii" :> S("")) @@ GoodLead)>> }

\* The step that follows the step of a sheet
step_after(kind) ==
    IF kind = "sales" THEN "trainings" ELSE IF kind = "trainings" THEN "leads" ELSE "report"

\* validate() of the validator main() imports for the sheet: the findings,
\* or raised
imported_validate(kind, data, now) ==
    Let(Validator(kind, data), LAMBDA self :
        LET n == Len(data) - 1
            raised ==
                /\ scans_rows(self)
                /\ \E i \in 1..n :
                       IF kind = "sales" THEN sales_row_raises(self, data[i + 1])
                       ELSE kind = "trainings" /\ trainings_row_raises(self, data[i + 1], now)
        IN  [raised |-> raised,
             errors |->
                 IF raised THEN <<>>
                 ELSE IF kind = "sales"
                 THEN validate(self, [i \in 1..n |->
                                         sales_validate_row(self, i, data[i + 1], now)])
                 ELSE IF kind = "trainings" THEN validator_trainings_validate(self, now)
                 ELSE validate(self, [i \in 1..n |->
                                         validator_leads_validate_row(self, i, data[i + 1])])])

\* main() is started
main_start ==
    /\ main_pc \in {"idle", "done", "exit"}
    /\ mains < MaxMains
    /\ mains' = mains + 1
    /\ all_errors' = <<>>
    /\ failed_sheets' = {}
    /\ main_pc' = "sales"
    /\ UNCHANGED <<report_vars, uid_vars, val_vars, api_vars>>

\* Steps 3, 4 and 5 of main(): the sheet is read and validated; when
\* validate() raises, the except branch logs it and main() goes on
main_sheet(kind, data, now) ==
    /\ main_pc = kind
    /\ \E outcome \in {imported_validate(kind, data, now)} :
           IF outcome.raised
           THEN /\ failed_sheets' = failed_sheets \cup {kind}
                /\ UNCHANGED all_errors
           ELSE /\ all_errors' = all_errors \o outcome.errors
                /\ UNCHANGED failed_sheets
    /\ main_pc' = step_after(kind)
    /\ UNCHANGED <<mains, report_vars, uid_vars, val_vars, api_vars>>

\* Steps 3, 4 and 5 of main(): read_data raises, the except branch logs it
\* and main() goes on
main_sheet_fails(kind) ==
    /\ main_pc = kind
    /\ kind \in {"sales", "trainings", "leads"}
    /\ failed_sheets' = failed_sheets \cup {kind}
    /\ main_pc' = step_after(kind)
    /\ UNCHANGED <<all_errors, mains, report_vars, uid_vars, val_vars, api_vars>>

\* The update of the report: read, parse, reconcile with all_errors, write
main_update_report ==
    /\ main_pc = "report"
    /\ LET items == parse_existing_report(report_rows)
           active_rows == reconcile(items, all_errors, strftime(today))
       IN  /\ report_data' = report_rows
           /\ existing_items' = items
           /\ new_errors' = all_errors
           /\ combined' = unsorted_items(items, all_errors, strftime(today))
           /\ active_items' = active_rows
           /\ report_rows' = <<HEADERS>> \o [i \in 1..Len(active_rows) |-> to_row(active_rows[i])]
    /\ run_day' = today
    /\ runs' = runs + 1
    /\ main_pc' = "done"
    /\ UNCHANGED <<today, edits, all_errors, failed_sheets, mains, uid_vars, val_vars, api_vars>>

\* The update of the report raises (the read, or write_report before or
\* after its clear): sys.exit(1)
main_report_fails(left) ==
    /\ main_pc = "report"
    /\ report_rows' = left
    /\ main_pc' = "exit"
    /\ UNCHANGED <<today, runs, edits, report_data, existing_items, new_errors, combined,
                   active_items, run_day, all_errors, failed_sheets, mains, uid_vars, val_vars,
                   api_vars>>

NextRun ==
    \/ main_start
    \/ \E kind \in {"sales", "trainings", "leads"} :
           \E data \in RunSheets(kind) : main_sheet(kind, data, datetime(Today, 0))
    \/ \E kind \in {"sales", "trainings", "leads"} : main_sheet_fails(kind)
    \/ main_update_report
    \/ \E left \in {report_rows, <<>>} : main_report_fails(left)

SpecRun == Init /\ [][NextRun]_vars

\* The name of the sheet of a validator
SheetName(kind) ==
    IF kind = "sales" THEN "Prodazhi"
    ELSE IF kind = "trainings" THEN "Trenirovki" ELSE "Obrashcheniya"

\* C22: in one run of main() the report is reconciled after the three
\* sheet steps and only with the complete findings: when the read or the
\* validation of a sheet failed, the report is not rewritten from the
\* findings of the other sheets, so that every task of the failed sheet
\* that is not manual and stood in the report before the run is still in
\* the report after it.
C22_ReconcileOnlyComplete ==
    main_pc = "done" =>
        \A kind \in failed_sheets :
            \A k \in 1..Len(existing_items) :
                (existing_items[k].sheet = SheetName(kind) /\ ~existing_items[k].is_manual)
                    => \E j \in 1..Len(active_items) : active_items[j].uid = existing_items[k].uid

(***************************************************************************)
(* C29: reconcile returns one item per uid, with the last finding's text   *)
(***************************************************************************)
\* The last finding of the list that has the uid u
LastFinding(errs, u) ==
    errs[CHOOSE j \in 1..Len(errs) :
             /\ uid(errs[j]) = u
             /\ \A l \in (j + 1)..Len(errs) : uid(errs[l]) # u]

ItemsWithUid(items, u) == {a \in 1..Len(items) : items[a].uid = u}

\* C29: after a report step, no two items of the list reconcile returned have
\* the same uid, and every uid of the run's findings is carried by exactly
\* one item, whose description, link and admin are those of the last finding
\* of the list with that uid.
C29_OneItemPerUid ==
    runs > 0 =>
        /\ \A a, b \in 1..Len(active_items) :
               a # b => active_items[a].uid # active_items[b].uid
        /\ \A j \in 1..Len(new_errors) :
               /\ Cardinality(ItemsWithUid(active_items, uid(new_errors[j]))) = 1
               /\ \A a \in ItemsWithUid(active_items, uid(new_errors[j])) :
                      LET last == LastFinding(new_errors, uid(new_errors[j]))
                      IN  /\ active_items[a].description = last.description
                          /\ active_items[a].link = last.cell_link
                          /\ active_items[a].admin = last.admin

\* Two findings of one uid and different text were reconciled into one item
\* carrying the text of the second, beside the manual items of the sheet.
C29_Witness ==
    /\ runs > 0
    /\ new_errors = <<F1, F1b>>
    /\ uid(F1) = uid(F1b)
    /\ Len(active_items) > 1
    /\ \E a \in 1..Len(active_items) :
           /\ active_items[a].uid = uid(F1)
           /\ active_items[a].description = F1b.description
           /\ active_items[a].description # F1.description

\* The same, for an item that was already in the report with the first text.
C29_WitnessRefreshed ==
    /\ runs > 1
    /\ new_errors = <<F1, F1b>>
    /\ \E k \in 1..Len(existing_items) :
           /\ existing_items[k].uid = uid(F1)
           /\ existing_items[k].description = F1.description
    /\ \E a \in 1..Len(active_items) :
           /\ active_items[a].uid = uid(F1)
           /\ active_items[a].description = F1b.description

(***************************************************************************)
(* C26, C27: structural failures and exceptions                            *)
(***************************************************************************)
\* C26 (as claimed): when the row list handed to the validator is empty,
\* validate() returns exactly one sheet-level finding (row_number = 0) and no
\* row-level finding.
C26_EmptySheetOneFinding ==
    (val_step > 0 /\ Len(val_data) = 0) =>
        /\ ~val_raised
        /\ Len(val_errors) = 1
        /\ val_errors[1].row_number = 0

\* C27 (as claimed): for every sheet whose cells are empty, text, numbers or
\* booleans, validate() of each of the three validators returns a list of
\* findings and never raises.
C27_NeverRaises == val_step > 0 => ~val_raised

(***************************************************************************)
(* C28: the cell link of a finding names the finding's row and column      *)
(***************************************************************************)
\* The letters of a 0-based column index below 702: A..Z, then AA..ZZ
ColLetter(idx) ==
    IF idx < 26 THEN CharAt(UpperLetters, idx + 1)
    ELSE CharAt(UpperLetters, idx \div 26) \o CharAt(UpperLetters, (idx % 26) + 1)

\* The sheet row of the header row, given the range main() reads
HeaderSheetRow(kind) == IF kind = "trainings" THEN 1 ELSE 2

\* The link to a cell of the validated sheet
LinkTo(letter, sheet_row) ==
    "https://docs.google.com/spreadsheets/d/" \o val_self.spreadsheet_id \o "/edit#gid="
    \o ToString(val_self.sheet_id) \o "&range=" \o letter \o ToString(sheet_row)

\* C28: for every finding with row_number >= 1 of the three validators the
\* range of cell_link is the column letter followed by row_number, the letter
\* being the base-26 letter of the finding's column when the header row has
\* the column (index 0 -> A, 25 -> Z, 26 -> AA) and A otherwise, and row_number
\* is the sheet row of a data row of the sheet: the header's sheet row (2 for
\* Sales and Leads, 1 for Trainings) plus the 1-based place of the data row;
\* an "empty" finding on a column of the header stands on a row whose cell of
\* that column is empty.
C28_LinkNamesRow ==
    /\ _get_col_letter(0) = "A" /\ _get_col_letter(25) = "Z" /\ _get_col_letter(26) = "AA"
    /\ \A idx \in 0..60 : _get_col_letter(idx) = ColLetter(idx)
    /\ (val_step > 0 /\ ~val_raised) =>
           \A k \in 1..Len(val_errors) :
               LET e == val_errors[k]
                   i == e.row_number - HeaderSheetRow(val_kind)
               IN  e.row_number >= 1 =>
                       /\ i \in 1..(Len(val_data) - 1)
                       /\ e.cell_link =
                              LinkTo(IF S(e.column) \in DOMAIN val_self.column_indices
                                     THEN ColLetter(val_self.column_indices[S(e.column)])
                                     ELSE "A",
                                     e.row_number)
                       /\ (e.error_type = "empty" /\ S(e.column) \in DOMAIN val_self.column_indices)
                              => ~Truthy(CellOf(i, e.column))

\* A finding on the second data row of a Trainings sheet (sheet row 3) and one
\* on a column past the first were returned
C28_Witness ==
    /\ val_step > 0 /\ ~val_raised /\ val_kind = "trainings"
    /\ \E k \in 1..Len(val_errors) :
           /\ val_errors[k].row_number = 3
           /\ S(val_errors[k].column) \in DOMAIN val_self.column_indices
           /\ val_self.column_indices[S(val_errors[k].column)] > 0

\* A finding on the first data row of a Sales sheet (sheet row 3)
C28_WitnessSales ==
    /\ val_step > 0 /\ ~val_raised /\ val_kind = "sales"
    /\ \E k \in 1..Len(val_errors) :
           /\ val_errors[k].row_number = 3
           /\ S(val_errors[k].column) \in DOMAIN val_self.column_indices
           /\ val_self.column_indices[S(val_errors[k].column)] > 0

\* A finding whose column is not in the header row, linked to column A
C28_WitnessNoColumn ==
    /\ val_step > 0 /\ ~val_raised
    /\ \E k \in 1..Len(val_errors) :
           /\ val_errors[k].row_number >= 1
           /\ S(val_errors[k].column) \notin DOMAIN val_self.column_indices

====
